---- MODULE Spec2Model ----
(***************************************************************************)
(* LibreConnect daemon (src/daemon/src/daemon.rs): the TCP listener, the   *)
(* per-connection handler, the pairing branches of handle_message and the  *)
(* plugin dispatch, with the clients of src/cli as the producers of the    *)
(* byte stream.                                                            *)
(*                                                                         *)
(* The daemon runs on tokio's multi-thread runtime (daemon/src/main.rs:11),*)
(* so connection handlers run in parallel: one step of the model is one    *)
(* critical section (a Mutex held) or one network / file-system call.      *)
(***************************************************************************)
EXTENDS Integers, Sequences, FiniteSets, TLC

\* ------------------------------------------------------------------ bounds

\* how many of the values 100000..=999999 the random generator draws from
NumKeys == 2
\* how many messages the clients write, all connections together
MaxMsgs == 2
\* how many bytes the file of a transfer has at most
MaxSize == 2
\* how many messages the client of a transfer writes
MaxFtMsgs == 4

\* ------------------------------------------------------- program constants

\* rng.gen_range(100000..=999999)
KeyLo == 100000
KeyHi == 999999
\* vec![0u8; 8192]
BUFFER_LEN == 8192
\* 64 * 1024 * 1024
MAX_MESSAGE_SIZE == 67108864

Min(a, b) == IF a < b THEN a ELSE b

\* the connections the listener can be offered
Conns == {"c1", "c2"}

\* ------------------------------------------------------------ shared types

\* shared::DeviceType and shared::PluginType (the variants used by the clients)
DeviceType == {"Mobile", "Desktop"}
PluginType == {"ClipboardSync", "FileTransfer", "InputShare", "NotificationSync",
               "BatteryStatus", "MediaControl", "RemoteCommands", "TouchpadMode",
               "SlideControl"}

\* DeviceInfo { id, name, device_type, capabilities }
DeviceInfo(id, name, device_type, capabilities) ==
    [id |-> id, name |-> name, device_type |-> device_type,
     capabilities |-> capabilities]

\* the absent message: Option::None, and "nothing being handled"
NoMsg == [tag |-> "None"]

Ping == [tag |-> "Ping"]
Pong == [tag |-> "Pong"]
RequestPairing(info) == [tag |-> "RequestPairing", info |-> info]
RequestPairingWithKey(id, name, device_type, capabilities, key) ==
    [tag |-> "RequestPairingWithKey", id |-> id, name |-> name,
     device_type |-> device_type, capabilities |-> capabilities,
     pairing_key |-> key]
RequestClipboard == [tag |-> "RequestClipboard"]
PairingAccepted(device_id) == [tag |-> "PairingAccepted", device_id |-> device_id]
PairingRejected(device_id, reason) ==
    [tag |-> "PairingRejected", device_id |-> device_id, reason |-> reason]
\* a String is kept as one character and how many times it is repeated
Str(char, len) == [char |-> char, len |-> len]
ClipboardSync(content) == [tag |-> "ClipboardSync", content |-> content]
FileTransferRequest(file_name, file_size) ==
    [tag |-> "FileTransferRequest", file_name |-> file_name, file_size |-> file_size]
FileTransferChunk(file_name, chunk, offset) ==
    [tag |-> "FileTransferChunk", file_name |-> file_name, chunk |-> chunk,
     offset |-> offset]
FileTransferEnd(file_name) == [tag |-> "FileTransferEnd", file_name |-> file_name]
FileTransferError(file_name, error) ==
    [tag |-> "FileTransferError", file_name |-> file_name, error |-> error]

\* ------------------------------------------------------------ pairing key

\* format!("{:06}", n): the six decimal digits of n, most significant first
Format06(n) == [i \in 1..6 |-> (n \div (10 ^ (6 - i))) % 10]

\* the values rng.gen_range draws from (the first NumKeys of the range)
RngValues == KeyLo .. Min(KeyHi, KeyLo + NumKeys - 1)

\* Daemon::generate_pairing_key, for the value n drawn by the generator
generate_pairing_key(n) == Format06(n)

PairingKeys == {generate_pairing_key(n) : n \in RngValues}

\* ------------------------------------------------------------- the parsers

\* device_type.parse::<DeviceType>() : the variant named by the string, or none
ParseDeviceType(s) == IF s \in DeviceType THEN <<s>> ELSE <<>>
\* cap.parse::<PluginType>() : the variant named by the string, or none
ParsePluginType(s) == IF s \in PluginType THEN <<s>> ELSE <<>>

\* capabilities.iter().filter_map(|cap| cap.parse().ok()).collect()
RECURSIVE FilterMapCapabilities(_)
FilterMapCapabilities(caps) ==
    IF caps = <<>> THEN <<>>
    ELSE ParsePluginType(Head(caps)) \o FilterMapCapabilities(Tail(caps))

\* the DeviceInfo built from a RequestPairingWithKey
KeyedDeviceInfo(m) ==
    DeviceInfo(m.id, m.name,
               IF ParseDeviceType(m.device_type) = <<>> THEN "Mobile"
               ELSE ParseDeviceType(m.device_type)[1],
               FilterMapCapabilities(m.capabilities))

\* ------------------------------------------------------------ the registry

\* an insert that leaves the entry of the same id in place
HashMapInsert_Duplicate(map, info) == map \cup {info}

\* an insert into a map read before the other inserts: their entries are lost
HashMapInsert_LoseOthers(map, info) == {info}

\* HashMap<DeviceId, DeviceInfo>::insert: the entry of the same key is replaced
HashMapInsert(map, info) == {e \in map : e.id # info.id} \cup {info}

\* ------------------------------------------------------------- the codec

\* how many bytes serde_json::to_vec(message) yields: the quotes or the
\* braces and field names of the variant, and the bytes of its payload
EncodedSize(m) ==
    CASE m.tag \in {"Ping", "Pong"} -> 6
      [] m.tag = "ClipboardSync" -> 18 + m.content.len
      [] m.tag = "FileTransferChunk" -> 64 + 2 * Len(m.chunk)
      [] OTHER -> 64

\* serde_json::to_vec(message): the encoding is cut in two halves, so that a
\* read can end in the middle of a message; a piece holds len of the full
\* bytes of its half
Encode(m) ==
    <<[part |-> 1, msg |-> m, len |-> EncodedSize(m) \div 2,
       full |-> EncodedSize(m) \div 2],
      [part |-> 2, msg |-> m, len |-> EncodedSize(m) - EncodedSize(m) \div 2,
       full |-> EncodedSize(m) - EncodedSize(m) \div 2]>>
\* b"\n"
Newline == [part |-> 0, msg |-> NoMsg, len |-> 1, full |-> 1]
IsWhitespace(b) == b.part = 0

\* the first k bytes of a piece
Truncate(b, k) == [b EXCEPT !.len = k]

\* how many bytes a sequence of pieces holds
RECURSIVE ByteLen(_)
ByteLen(bytes) ==
    IF bytes = <<>> THEN 0 ELSE Head(bytes).len + ByteLen(Tail(bytes))

RECURSIVE SkipWhitespace(_)
SkipWhitespace(bytes) ==
    IF bytes # <<>> /\ IsWhitespace(Head(bytes)) THEN SkipWhitespace(Tail(bytes))
    ELSE bytes

RECURSIVE AllWhitespace(_)
AllWhitespace(bytes) ==
    bytes = <<>> \/ (IsWhitespace(Head(bytes)) /\ AllWhitespace(Tail(bytes)))

DecodeError == [tag |-> "DecodeError"]

\* a decoder that yields a message as soon as it has seen the start of one
from_slice_Prefix(bytes) ==
    LET rest == SkipWhitespace(bytes) IN
    IF Len(rest) >= 1 /\ rest[1].part = 1 THEN rest[1].msg ELSE DecodeError

\* serde_json::from_slice::<Message>(bytes): leading whitespace is skipped, one
\* whole value is parsed, and only whitespace may follow it
from_slice(bytes) ==
    LET rest == SkipWhitespace(bytes) IN
    IF /\ Len(rest) >= 2
       /\ rest[1].part = 1 /\ rest[1].len = rest[1].full
       /\ rest[2].part = 2 /\ rest[2].len = rest[2].full
       /\ rest[1].msg = rest[2].msg
       /\ AllWhitespace(SubSeq(rest, 3, Len(rest)))
    THEN rest[1].msg
    ELSE DecodeError

\* ------------------------------------------------------------ the plugins

\* Daemon::create_plugins, in registration order
plugins == <<"ping", "clipboard-sync", "file-transfer", "input-share",
             "notification-sync", "media-control", "battery-status",
             "remote-commands", "touchpad-mode", "slide-control">>

\* the messages FileTransferPlugin matches; its handling of them reads and
\* writes the sessions and the files, and is modelled by the Ft actions
FtTags == {"FileTransferRequest", "FileTransferChunk", "FileTransferEnd",
           "FileTransferError"}
FtIndex == CHOOSE i \in 1 .. Len(plugins) : plugins[i] = "file-transfer"

\* ClipboardSyncPlugin.clipboard and the system clipboard behind it: mode is
\* "none" when arboard::Clipboard::new() failed and the plugin holds None,
\* "ok" when set_text and get_text succeed, "failing" when they return Err
VARIABLE clipboard

ClipboardModes == {"none", "ok", "failing"}
NoClipboard == [mode |-> "none", text |-> Str("", 0)]

\* a PingPlugin that answers a Pong as it answers a Ping
PluginHandle_EchoPong(p, m) ==
    IF p = "ping" /\ m.tag \in {"Ping", "Pong"} THEN Pong
    ELSE IF p = "clipboard-sync" /\ m.tag = "RequestClipboard"
    THEN ClipboardSync(IF clipboard.mode = "ok" THEN clipboard.text ELSE Str("", 0))
    ELSE NoMsg

\* what Plugin::handle_message returns: PingPlugin answers a Ping,
\* ClipboardSyncPlugin answers RequestClipboard with the text get_text yields,
\* or with String::new() when it has no clipboard or get_text fails; every
\* other arm is `_ => None` or returns None
PluginHandle(p, m) ==
    IF p = "ping" /\ m.tag = "Ping" THEN Pong
    ELSE IF p = "clipboard-sync" /\ m.tag = "RequestClipboard"
    THEN ClipboardSync(IF clipboard.mode = "ok" THEN clipboard.text ELSE Str("", 0))
    ELSE NoMsg

\* a ClipboardSyncPlugin that logs the text received and leaves the clipboard
set_text_Keep(m) == clipboard

\* the clipboard after ClipboardSyncPlugin has handled m: set_text(content)
\* for a ClipboardSync, a failure of it only logged
set_text(m) ==
    IF m.tag = "ClipboardSync" /\ clipboard.mode = "ok"
    THEN [clipboard EXCEPT !.text = m.content]
    ELSE clipboard

\* the handlers whose handle_message may return Err, and no handler
FallibleHandlers == {"ping", "clipboard-sync"}
NoPlugin == "none"

\* one call plugin.handle_message(&message, ..) and what it returned
Invoked(p, m, outcome) == [plugin |-> p, msg |-> m, outcome |-> outcome]

\* a loop that calls every plugin and returns the first response there was
RECURSIVE DispatchFrom_InvokeAll(_, _, _, _, _)
DispatchFrom_InvokeAll(i, to, m, failing, tr) ==
    IF i > to THEN [response |-> NoMsg, trace |-> tr]
    ELSE LET r == IF plugins[i] = failing THEN NoMsg ELSE PluginHandle(plugins[i], m)
             rest == DispatchFrom_InvokeAll(
                         i + 1, to, m, failing,
                         Append(tr, Invoked(plugins[i], m,
                                            IF plugins[i] = failing THEN "Err"
                                            ELSE IF r # NoMsg THEN "Some"
                                            ELSE "None")))
         IN IF r # NoMsg THEN [response |-> r, trace |-> rest.trace] ELSE rest

\* a loop that gives up at the first handler that fails
RECURSIVE DispatchFrom_StopOnErr(_, _, _, _, _)
DispatchFrom_StopOnErr(i, to, m, failing, tr) ==
    IF i > to THEN [response |-> NoMsg, trace |-> tr]
    ELSE IF plugins[i] = failing
    THEN [response |-> NoMsg, trace |-> Append(tr, Invoked(plugins[i], m, "Err"))]
    ELSE IF PluginHandle(plugins[i], m) # NoMsg
    THEN [response |-> PluginHandle(plugins[i], m),
          trace |-> Append(tr, Invoked(plugins[i], m, "Some"))]
    ELSE DispatchFrom_StopOnErr(i + 1, to, m, failing,
                                Append(tr, Invoked(plugins[i], m, "None")))

\* for plugin in plugins.iter() { if let Ok(Some(response)) = ... return },
\* over plugins[i .. to]: the response and the invocations made, after tr
RECURSIVE DispatchFrom(_, _, _, _, _)
DispatchFrom(i, to, m, failing, tr) ==
    IF i > to THEN [response |-> NoMsg, trace |-> tr]
    ELSE IF plugins[i] = failing
    THEN DispatchFrom(i + 1, to, m, failing, Append(tr, Invoked(plugins[i], m, "Err")))
    ELSE IF PluginHandle(plugins[i], m) # NoMsg
    THEN [response |-> PluginHandle(plugins[i], m),
          trace |-> Append(tr, Invoked(plugins[i], m, "Some"))]
    ELSE DispatchFrom(i + 1, to, m, failing, Append(tr, Invoked(plugins[i], m, "None")))

\* ------------------------------------------------------------- the clients

\* the producers: cli::send_message ends each message with a newline,
\* commands::send_file writes the messages back to back
Framings == {"newline", "raw"}

\* the two codes the clients present
ClientKeys == <<generate_pairing_key(KeyLo), generate_pairing_key(KeyLo + 1)>>

\* the pairing requests of the clients, all of device d1 so that each pairing
\* may find the entry of another one: the legacy way under name n3, with the
\* first code under name n1, with the second code under name n2
LegacyRequests ==
    {RequestPairing(DeviceInfo("d1", "n3", "Mobile", <<"ClipboardSync">>))}
KeyedRequests ==
    {RequestPairingWithKey("d1", "n1", "bogus", <<"FileTransfer", "bogus">>,
                           ClientKeys[1]),
     RequestPairingWithKey("d1", "n2", "Desktop", <<>>, ClientKeys[2])}

\* the names a file transfer may give
FileNames == {"f"}

\* the messages a client may write
ClientMessages == {Ping, Pong} \cup LegacyRequests \cup KeyedRequests

\* ------------------------------------------------------------------ state

VARIABLES
    paired_devices,   \* Daemon.paired_devices: the registry
    pairing_key,      \* Daemon.pairing_key: the live code
    disk,             \* the content of paired_devices.json
    listening,        \* the accept loop of start_tcp_server is running
    framing,          \* which producer the client of each connection is
    pc,               \* where each connection's handler stands
    wire,             \* bytes written by the client and not yet read
    cur,              \* the message handle_message is working on
    snap,             \* `devices` in save_paired_devices_static
    resp,             \* the value handle_message returned
    result,           \* what handle_client_connection returned
    nSent,            \* history: how many messages the clients have written
    unread,           \* history: the messages written and not yet decoded
    count,            \* history: messages decoded / finished / answered
    cmp,              \* history: the live code and its generation when compared
    keyGen,           \* history: how many times the live code was replaced
    accepted,         \* history: the keyed requests answered PairingAccepted
    active_transfers, \* FileTransferPlugin.active_transfers: the open sessions
    files,            \* the files of the download directory
    file,             \* `file` in FileTransferPlugin::handle_message
    xfer,             \* history: the transfer in progress, as its sender sees it
    trace,            \* history: the plugins invoked for the message in handling
    big,              \* history: what became of the bytes of an oversize message
    start,            \* Daemon::start: where it is, or what it returned
    discovery,        \* the task spawned by start_mdns_discovery
    locks             \* who holds the Mutex of the registry and of the live code

shared_vars == <<paired_devices, pairing_key, disk>>
hist_vars == <<nSent, unread, count, cmp, keyGen, accepted>>
ft_vars == <<active_transfers, files, xfer>>
daemon_vars == <<clipboard, start, discovery, locks>>
vars == <<paired_devices, pairing_key, disk, listening, framing, pc, wire, cur, snap,
          resp, result, nSent, unread, count, cmp, keyGen, accepted,
          active_transfers, files, file, xfer, trace, big, clipboard, start,
          discovery, locks>>

\* the tasks that lock: the handlers and the discovery task; the two Mutexes
Tasks == Conns \cup {"discovery"}
LockNames == {"paired_devices", "pairing_key"}
NoLocks == [l \in LockNames |-> "free"]

\* no file of that name / no File value / no transfer followed
NoBytes == [exists |-> FALSE, bytes |-> <<>>]
NoFile == [file_name |-> "", live |-> FALSE]
NoXfer == [state |-> "none", file_name |-> "", size |-> 0, got |-> <<>>]

\* `done` lists the stages the accepting branch of a keyed pairing has passed
NoCmp == [key |-> <<>>, gen |-> -1, stale |-> FALSE, done |-> <<>>]
NoCount == [decoded |-> 0, finished |-> 0, answered |-> 0]

\* Daemon::new on a first run (no paired_devices.json), then start
Init ==
    /\ paired_devices = {}
    /\ pairing_key \in PairingKeys
    /\ disk = <<>>
    /\ listening = TRUE
    /\ framing = [c \in Conns |-> "none"]
    /\ pc = [c \in Conns |-> "new"]
    /\ wire = [c \in Conns |-> <<>>]
    /\ cur = [c \in Conns |-> NoMsg]
    /\ snap = [c \in Conns |-> <<>>]
    /\ resp = [c \in Conns |-> NoMsg]
    /\ result = [c \in Conns |-> "running"]
    /\ nSent = 0
    /\ unread = [c \in Conns |-> <<>>]
    /\ count = [c \in Conns |-> NoCount]
    /\ cmp = [c \in Conns |-> NoCmp]
    /\ keyGen = 0
    /\ accepted = {}
    /\ active_transfers = {}
    /\ files = [f \in FileNames |-> NoBytes]
    /\ file = [c \in Conns |-> NoFile]
    /\ xfer = NoXfer
    /\ trace = [c \in Conns |-> <<>>]
    /\ big = [c \in Conns |-> "no"]
    /\ clipboard = NoClipboard
    /\ start = "select"
    /\ discovery = "running"
    /\ locks = NoLocks

\* ------------------------------------------------------------ the listener

\* listener.accept() returns Ok: the handler task is spawned
Accept(c, f) ==
    /\ listening
    /\ pc[c] = "new"
    /\ pc' = [pc EXCEPT ![c] = "read"]
    /\ framing' = [framing EXCEPT ![c] = f]
    /\ UNCHANGED <<shared_vars, listening, wire, cur, snap, resp, result,
                   hist_vars>>
    /\ UNCHANGED <<ft_vars, file, trace, big, daemon_vars>>

\* listener.accept() returns Err: logged, the loop sleeps and goes on
AcceptError(c) ==
    /\ listening
    /\ pc[c] = "new"
    /\ pc' = [pc EXCEPT ![c] = "done"]
    /\ result' = [result EXCEPT ![c] = "AcceptFailed"]
    /\ UNCHANGED <<shared_vars, listening, framing, wire, cur, snap, resp, hist_vars>>
    /\ UNCHANGED <<ft_vars, file, trace, big, daemon_vars>>

\* ------------------------------------------------------------- the client

\* cli::send_message (framing "newline": the JSON, then "\n") and
\* commands::send_file (framing "raw": the JSON alone). The daemon sees the
\* bytes of a connection at its reads only, so they are let arrive while the
\* handler is at its read: a client may write several messages before the
\* handler reads any, and may write the next one before it has its reply.
ClientSend(c, m) ==
    /\ pc[c] = "read"
    /\ nSent < MaxMsgs
    /\ wire' = [wire EXCEPT ![c] =
                  @ \o Encode(m)
                    \o (IF framing[c] = "newline" THEN <<Newline>> ELSE <<>>)]
    /\ unread' = [unread EXCEPT ![c] = Append(@, m)]
    /\ nSent' = nSent + 1
    /\ UNCHANGED <<shared_vars, listening, framing, pc, cur, snap, resp, result,
                   count, cmp, keyGen, accepted>>
    /\ UNCHANGED <<ft_vars, file, trace, big, daemon_vars>>

\* ------------------------------------------------- handle_client_connection

\* a handler whose failure is taken for a failure of the accept loop
Return_StopsListener(c, r) ==
    /\ pc' = [pc EXCEPT ![c] = "done"]
    /\ result' = [result EXCEPT ![c] = r]
    /\ cur' = [cur EXCEPT ![c] = NoMsg]
    /\ resp' = [resp EXCEPT ![c] = NoMsg]
    /\ snap' = [snap EXCEPT ![c] = <<>>]
    /\ wire' = [wire EXCEPT ![c] = <<>>]
    /\ unread' = [unread EXCEPT ![c] = <<>>]
    /\ cmp' = [cmp EXCEPT ![c] = NoCmp]
    /\ framing' = [framing EXCEPT ![c] = "none"]
    /\ file' = [file EXCEPT ![c] = NoFile]
    /\ trace' = [trace EXCEPT ![c] = <<>>]
    /\ listening' = (r = "Ok")

\* the handler task returns r: its stream and its locals are dropped; the
\* accept loop is another task and goes on
Return(c, r) ==
    /\ pc' = [pc EXCEPT ![c] = "done"]
    /\ result' = [result EXCEPT ![c] = r]
    /\ cur' = [cur EXCEPT ![c] = NoMsg]
    /\ resp' = [resp EXCEPT ![c] = NoMsg]
    /\ snap' = [snap EXCEPT ![c] = <<>>]
    /\ wire' = [wire EXCEPT ![c] = <<>>]
    /\ unread' = [unread EXCEPT ![c] = <<>>]
    /\ cmp' = [cmp EXCEPT ![c] = NoCmp]
    /\ framing' = [framing EXCEPT ![c] = "none"]
    /\ file' = [file EXCEPT ![c] = NoFile]
    /\ trace' = [trace EXCEPT ![c] = <<>>]
    /\ UNCHANGED listening

\* a message too long for the daemon to take
Oversize(m) == EncodedSize(m) > MAX_MESSAGE_SIZE

\* what one read may leave in the buffer: pieces of the stream as long as they
\* fit, or the buffer filled up to the middle of the piece that does not fit
Reads(w) ==
    {SubSeq(w, 1, n) :
       n \in {k \in 1 .. Len(w) : ByteLen(SubSeq(w, 1, k)) <= BUFFER_LEN}}
    \cup
    {Append(SubSeq(w, 1, n),
            Truncate(w[n + 1], BUFFER_LEN - ByteLen(SubSeq(w, 1, n)))) :
       n \in {k \in 0 .. Len(w) - 1 :
                /\ ByteLen(SubSeq(w, 1, k)) < BUFFER_LEN
                /\ ByteLen(SubSeq(w, 1, k + 1)) > BUFFER_LEN}}

\* a handler that reads the next message while a response is still to be written
Read_Pipelined(c) ==
    /\ pc[c] \in {"read", "write"}
    /\ wire[c] # <<>>
    /\ \E bytes \in Reads(wire[c]) :
         LET message == from_slice(bytes)
         IN /\ message # DecodeError
            /\ wire' = [wire EXCEPT ![c] = SubSeq(@, Len(bytes) + 1, Len(@))]
            /\ pc' = [pc EXCEPT ![c] = "handle"]
            /\ cur' = [cur EXCEPT ![c] = message]
            /\ unread' = [unread EXCEPT ![c] = Tail(@)]
            /\ count' = [count EXCEPT ![c].decoded = @ + 1]
            /\ cmp' = [cmp EXCEPT ![c] = NoCmp]
            /\ trace' = [trace EXCEPT ![c] = <<>>]
    /\ UNCHANGED <<shared_vars, resp, snap, result, framing, listening, nSent, keyGen,
                   accepted, ft_vars, file, big, daemon_vars>>

\* a handler that answers the bytes it cannot decode before it returns
Read_ReplyOnError(c) ==
    /\ pc[c] = "read"
    /\ wire[c] # <<>>
    /\ \E bytes \in Reads(wire[c]) :
         LET bytes_read == ByteLen(bytes)
             message == from_slice(bytes)
         IN /\ big' = [big EXCEPT ![c] =
                         IF \E i \in 1 .. Len(bytes) : Oversize(bytes[i].msg)
                         THEN IF bytes_read > MAX_MESSAGE_SIZE
                              THEN "refused" ELSE "decoder"
                         ELSE @]
            /\ IF bytes_read > MAX_MESSAGE_SIZE THEN
                 /\ Return(c, "MessageTooLarge")
                 /\ UNCHANGED count
               ELSE IF message = DecodeError THEN
                 /\ Return(c, "MessageDeserialization")
                 /\ count' = [count EXCEPT ![c].answered = @ + 1]
               ELSE
                 /\ wire' = [wire EXCEPT ![c] = SubSeq(@, Len(bytes) + 1, Len(@))]
                 /\ pc' = [pc EXCEPT ![c] = "handle"]
                 /\ cur' = [cur EXCEPT ![c] = message]
                 /\ unread' = [unread EXCEPT ![c] = Tail(@)]
                 /\ count' = [count EXCEPT ![c].decoded = @ + 1]
                 /\ cmp' = [cmp EXCEPT ![c] = NoCmp]
                 /\ trace' = [trace EXCEPT ![c] = <<>>]
                 /\ UNCHANGED <<resp, snap, result, framing, listening, file>>
    /\ UNCHANGED <<shared_vars, nSent, keyGen, accepted, ft_vars, daemon_vars>>

\* stream.read returns bytes_read > 0 bytes, whatever the client's writes were
Read(c) ==
    /\ pc[c] = "read"
    /\ wire[c] # <<>>
    /\ \E bytes \in Reads(wire[c]) :
         LET bytes_read == ByteLen(bytes)
             message == from_slice(bytes)
         IN /\ big' = [big EXCEPT ![c] =
                         IF \E i \in 1 .. Len(bytes) : Oversize(bytes[i].msg)
                         THEN IF bytes_read > MAX_MESSAGE_SIZE
                              THEN "refused" ELSE "decoder"
                         ELSE @]
            /\ IF bytes_read > MAX_MESSAGE_SIZE THEN
                 /\ Return(c, "MessageTooLarge")
                 /\ UNCHANGED count
               ELSE IF message = DecodeError THEN
                 /\ Return(c, "MessageDeserialization")
                 /\ UNCHANGED count
               ELSE
                 /\ wire' = [wire EXCEPT ![c] = SubSeq(@, Len(bytes) + 1, Len(@))]
                 /\ pc' = [pc EXCEPT ![c] = "handle"]
                 /\ cur' = [cur EXCEPT ![c] = message]
                 /\ unread' = [unread EXCEPT ![c] = Tail(@)]
                 /\ count' = [count EXCEPT ![c].decoded = @ + 1]
                 /\ cmp' = [cmp EXCEPT ![c] =
                              [NoCmp EXCEPT !.stale =
                                 /\ message.tag = "RequestPairingWithKey"
                                 /\ message.pairing_key \in
                                      {a.key : a \in accepted}]]
                 /\ trace' = [trace EXCEPT ![c] = <<>>]
                 /\ UNCHANGED <<resp, snap, result, framing, listening, file>>
    /\ UNCHANGED <<shared_vars, nSent, keyGen, accepted, ft_vars, daemon_vars>>

\* a handler that takes the end of the stream for a failure of the network
ReadEof_Failure(c) ==
    /\ pc[c] = "read"
    /\ wire[c] = <<>>
    /\ Return(c, "NetworkError")
    /\ UNCHANGED <<shared_vars, nSent, count, keyGen, accepted>>
    /\ UNCHANGED <<ft_vars, big, daemon_vars>>

\* a handler that takes the sessions of the plugin with it when its peer
\* disconnects
ReadEof_DropSessions(c) ==
    /\ pc[c] = "read"
    /\ wire[c] = <<>>
    /\ Return(c, "Ok")
    /\ active_transfers' = {}
    /\ UNCHANGED <<shared_vars, nSent, count, keyGen, accepted>>
    /\ UNCHANGED <<files, xfer, big, daemon_vars>>

\* Ok(Ok(0)): the peer has disconnected
ReadEof(c) ==
    /\ pc[c] = "read"
    /\ wire[c] = <<>>
    /\ Return(c, "Ok")
    /\ UNCHANGED <<shared_vars, nSent, count, keyGen, accepted>>
    /\ UNCHANGED <<ft_vars, big, daemon_vars>>

\* Ok(Err(e)): the read failed
ReadError(c) ==
    /\ pc[c] = "read"
    /\ Return(c, "NetworkError")
    /\ UNCHANGED <<shared_vars, nSent, count, keyGen, accepted>>
    /\ UNCHANGED <<ft_vars, big, daemon_vars>>

\* a read without a timeout: it waits on while nothing arrives
ReadTimeout_KeepWaiting(c) ==
    /\ pc[c] = "read"
    /\ wire[c] = <<>>
    /\ UNCHANGED vars

\* Err(_): nothing arrived within CONNECTION_TIMEOUT
ReadTimeout(c) ==
    /\ pc[c] = "read"
    /\ wire[c] = <<>>
    /\ Return(c, "Timeout")
    /\ UNCHANGED <<shared_vars, nSent, count, keyGen, accepted>>
    /\ UNCHANGED <<ft_vars, big, daemon_vars>>

\* a handler that writes whatever handle_message returned, None included
Returned_AlwaysWrite(c, r) ==
    /\ resp' = [resp EXCEPT ![c] = r]
    /\ pc' = [pc EXCEPT ![c] = "write"]
    /\ UNCHANGED <<cur, count>>

\* handle_message has returned r: Some(response) is to be written, None is not
Returned(c, r) ==
    /\ resp' = [resp EXCEPT ![c] = r]
    /\ pc' = [pc EXCEPT ![c] = IF r = NoMsg THEN "read" ELSE "write"]
    /\ cur' = [cur EXCEPT ![c] = IF r = NoMsg THEN NoMsg ELSE @]
    /\ count' = [count EXCEPT ![c].finished = IF r = NoMsg THEN @ + 1 ELSE @]

\* ------------------------------------------------------------ handle_message

\* a legacy pairing that keeps the entry the registry already has for the id
LegacyInsert_KeepExisting(c) ==
    /\ pc[c] = "handle"
    /\ cur[c].tag = "RequestPairing"
    /\ paired_devices' =
         IF \E e \in paired_devices : e.id = cur[c].info.id
         THEN paired_devices
         ELSE HashMapInsert(paired_devices, cur[c].info)
    /\ pc' = [pc EXCEPT ![c] = "save"]
    /\ UNCHANGED <<pairing_key, disk, listening, framing, wire, cur, snap, resp, result,
                   hist_vars>>
    /\ UNCHANGED <<ft_vars, file, trace, big, daemon_vars>>

\* a legacy pairing that replaces the live code as a keyed one does
LegacyInsert_NewKey(c) ==
    /\ pc[c] = "handle"
    /\ cur[c].tag = "RequestPairing"
    /\ paired_devices' = HashMapInsert(paired_devices, cur[c].info)
    /\ pc' = [pc EXCEPT ![c] = "save"]
    /\ \E n \in RngValues : pairing_key' = generate_pairing_key(n)
    /\ keyGen' = keyGen + 1
    /\ UNCHANGED <<disk, listening, framing, wire, cur, snap, resp, result,
                   nSent, unread, count, cmp, accepted>>
    /\ UNCHANGED <<ft_vars, file, trace, big, daemon_vars>>

\* Message::RequestPairing: the registry is locked and the device inserted
LegacyInsert(c) ==
    /\ pc[c] = "handle"
    /\ cur[c].tag = "RequestPairing"
    /\ paired_devices' = HashMapInsert(paired_devices, cur[c].info)
    /\ pc' = [pc EXCEPT ![c] = "save"]
    /\ UNCHANGED <<pairing_key, disk, listening, framing, wire, cur, snap, resp, result,
                   hist_vars>>
    /\ UNCHANGED <<ft_vars, file, trace, big, daemon_vars>>

\* a keyed pairing that accepts whatever key is presented
KeyedCompare_AcceptAny(c) ==
    /\ pc[c] = "handle"
    /\ cur[c].tag = "RequestPairingWithKey"
    /\ cmp' = [cmp EXCEPT ![c] = [@ EXCEPT !.key = pairing_key, !.gen = keyGen]]
    /\ pc' = [pc EXCEPT ![c] = "insert"]
    /\ UNCHANGED <<resp, cur, count>>
    /\ UNCHANGED <<shared_vars, listening, framing, wire, snap, result, nSent, unread,
                   keyGen, accepted>>
    /\ UNCHANGED <<ft_vars, file, trace, big, daemon_vars>>

\* a keyed pairing that replaces the live code on a rejection as well
KeyedCompare_RotateOnReject(c) ==
    /\ pc[c] = "handle"
    /\ cur[c].tag = "RequestPairingWithKey"
    /\ cmp' = [cmp EXCEPT ![c] = [@ EXCEPT !.key = pairing_key, !.gen = keyGen]]
    /\ IF pairing_key = cur[c].pairing_key
       THEN /\ pc' = [pc EXCEPT ![c] = "insert"]
            /\ UNCHANGED <<resp, cur, count, pairing_key, keyGen>>
       ELSE /\ Returned(c, PairingRejected(cur[c].id, "Invalid pairing key"))
            /\ \E n \in RngValues : pairing_key' = generate_pairing_key(n)
            /\ keyGen' = keyGen + 1
    /\ UNCHANGED <<paired_devices, disk, listening, framing, wire, snap, result, nSent,
                   unread, accepted>>
    /\ UNCHANGED <<ft_vars, file, trace, big, daemon_vars>>

\* Message::RequestPairingWithKey: the code is locked and compared
KeyedCompare(c) ==
    /\ pc[c] = "handle"
    /\ cur[c].tag = "RequestPairingWithKey"
    /\ cmp' = [cmp EXCEPT ![c] = [@ EXCEPT !.key = pairing_key, !.gen = keyGen]]
    /\ IF pairing_key = cur[c].pairing_key
       THEN /\ pc' = [pc EXCEPT ![c] = "insert"]
            /\ UNCHANGED <<resp, cur, count>>
       ELSE Returned(c, PairingRejected(cur[c].id, "Invalid pairing key"))
    /\ UNCHANGED <<shared_vars, listening, framing, wire, snap, result, nSent, unread,
                   keyGen, accepted>>
    /\ UNCHANGED <<ft_vars, file, trace, big, daemon_vars>>

\* a keyed pairing that replaces the code straight after the insert and
\* leaves the persisted document alone
KeyedInsert_SkipSave(c) ==
    /\ pc[c] = "insert"
    /\ paired_devices' = HashMapInsert(paired_devices, KeyedDeviceInfo(cur[c]))
    /\ pc' = [pc EXCEPT ![c] = "newkey"]
    /\ cmp' = [cmp EXCEPT ![c].done = Append(@, "insert")]
    /\ UNCHANGED <<pairing_key, disk, listening, framing, wire, cur, snap, resp, result,
                   nSent, unread, count, keyGen, accepted>>
    /\ UNCHANGED <<ft_vars, file, trace, big, daemon_vars>>

\* valid_key: the registry is locked and the device inserted
KeyedInsert(c) ==
    /\ pc[c] = "insert"
    /\ paired_devices' = HashMapInsert(paired_devices, KeyedDeviceInfo(cur[c]))
    /\ pc' = [pc EXCEPT ![c] = "save"]
    /\ cmp' = [cmp EXCEPT ![c].done = Append(@, "insert")]
    /\ UNCHANGED <<pairing_key, disk, listening, framing, wire, cur, snap, resp, result,
                   nSent, unread, count, keyGen, accepted>>
    /\ UNCHANGED <<ft_vars, file, trace, big, daemon_vars>>

\* the values of a map, in the order the map yields them
RECURSIVE Values(_)
Values(map) ==
    IF map = {} THEN <<>>
    ELSE LET e == CHOOSE x \in map : TRUE IN <<e>> \o Values(map \ {e})

\* a save that writes the device of the request alone
SaveSnapshot_OwnDevice(c) ==
    /\ pc[c] = "save"
    /\ snap' = [snap EXCEPT ![c] =
                  <<IF cur[c].tag = "RequestPairing" THEN cur[c].info
                    ELSE KeyedDeviceInfo(cur[c])>>]
    /\ pc' = [pc EXCEPT ![c] = "fswrite"]
    /\ UNCHANGED <<shared_vars, listening, framing, wire, cur, resp, result, hist_vars>>
    /\ UNCHANGED <<ft_vars, file, trace, big, daemon_vars>>

\* save_paired_devices_static: the registry is locked and its values cloned
SaveSnapshot(c) ==
    /\ pc[c] = "save"
    /\ snap' = [snap EXCEPT ![c] = Values(paired_devices)]
    /\ pc' = [pc EXCEPT ![c] = "fswrite"]
    /\ UNCHANGED <<shared_vars, listening, framing, wire, cur, resp, result, hist_vars>>
    /\ UNCHANGED <<ft_vars, file, trace, big, daemon_vars>>

\* save_paired_devices_static: fs::write of the snapshot (a failure is only
\* logged); after it the legacy branch returns PairingAccepted
SaveWrite(c, ok) ==
    /\ pc[c] = "fswrite"
    /\ disk' = IF ok THEN snap[c] ELSE disk
    /\ snap' = [snap EXCEPT ![c] = <<>>]
    /\ IF cur[c].tag = "RequestPairing"
       THEN Returned(c, PairingAccepted(cur[c].info.id))
       ELSE /\ pc' = [pc EXCEPT ![c] = "newkey"]
            /\ UNCHANGED <<resp, cur, count>>
    /\ cmp' = [cmp EXCEPT ![c].done =
                 IF cur[c].tag = "RequestPairing" THEN @
                 ELSE Append(@, IF ok THEN "save" ELSE "save failed")]
    /\ UNCHANGED <<paired_devices, pairing_key, listening, framing, wire, result, nSent,
                   unread, keyGen, accepted>>
    /\ UNCHANGED <<ft_vars, file, trace, big, daemon_vars>>

\* the new code is generated (n is what the generator draws), the code is
\* locked and replaced, and the keyed branch returns PairingAccepted
KeyedNewKey(c, n) ==
    /\ pc[c] = "newkey"
    /\ pairing_key' = generate_pairing_key(n)
    /\ keyGen' = keyGen + 1
    /\ Returned(c, PairingAccepted(KeyedDeviceInfo(cur[c]).id))
    /\ cmp' = [cmp EXCEPT ![c].done = Append(@, "newkey")]
    /\ UNCHANGED <<paired_devices, disk, listening, framing, wire, snap, result, nSent,
                   unread, accepted>>
    /\ UNCHANGED <<ft_vars, file, trace, big, daemon_vars>>

\* the plugin loop has ended with d: its response is returned
Looped(c, d) ==
    /\ Returned(c, d.response)
    /\ trace' = [trace EXCEPT ![c] = d.trace]

\* the plugin loop of handle_message, up to FileTransferPlugin when the
\* message is one of its own; `failing` is the handler that returns Err(_)
RouteWith(c, failing) ==
    /\ LET ft == cur[c].tag \in FtTags
           d == DispatchFrom(1, IF ft THEN FtIndex - 1 ELSE Len(plugins), cur[c],
                             failing, <<>>)
       IN IF ft /\ d.response = NoMsg THEN
               /\ pc' = [pc EXCEPT ![c] = "plugin"]
               /\ trace' = [trace EXCEPT ![c] = d.trace]
               /\ UNCHANGED <<cur, resp, count>>
          ELSE Looped(c, d)
    /\ clipboard' = IF failing = "clipboard-sync" THEN clipboard ELSE set_text(cur[c])
    /\ UNCHANGED <<shared_vars, listening, framing, wire, snap, result, nSent, unread,
                   cmp, keyGen, accepted, ft_vars, file, big, start, discovery, locks>>

\* a daemon that lets the plugins see the messages of a peer only once a
\* device is in the registry
Route_PairedOnly(c) ==
    /\ pc[c] = "handle"
    /\ cur[c].tag \notin {"RequestPairing", "RequestPairingWithKey"}
    /\ IF paired_devices # {}
       THEN RouteWith(c, NoPlugin)
       ELSE /\ Looped(c, [response |-> NoMsg, trace |-> <<>>])
            /\ UNCHANGED <<shared_vars, listening, framing, wire, snap, result, nSent,
                           unread, cmp, keyGen, accepted, ft_vars, file, big,
                           daemon_vars>>

\* `_ =>` : the message is routed to the plugins
Route(c) ==
    /\ pc[c] = "handle"
    /\ cur[c].tag \notin {"RequestPairing", "RequestPairingWithKey"}
    /\ RouteWith(c, NoPlugin)

\* the same with handler p returning Err(_) for this message
RouteFailing(c, p) ==
    /\ pc[c] = "handle"
    /\ cur[c].tag \notin {"RequestPairing", "RequestPairingWithKey"}
    /\ p \in FallibleHandlers
    /\ RouteWith(c, p)

\* ------------------------------------- FileTransferPlugin::handle_message

\* the sessions kept under a file name
Sessions(name) == {s \in active_transfers : s.file_name = name}

\* an insert that keeps the File there is under the name (or_insert)
SessionInsert_KeepOld(map, f) ==
    IF \E s \in map : s.file_name = f.file_name THEN map ELSE map \cup {f}

\* transfers.insert(file_name, file): the File kept before under the name is
\* dropped
SessionInsert(map, f) == {s \in map : s.file_name # f.file_name} \cup {f}

\* transfers.remove(file_name)
SessionRemove(map, name) == {s \in map : s.file_name # name}

\* file.seek(SeekFrom::Start(offset)) then the write of data: the bytes between
\* the end of the file and the offset read as zeros
WriteAt(bytes, offset, data) ==
    [i \in 1 .. (IF Len(bytes) > offset + Len(data) THEN Len(bytes)
                  ELSE offset + Len(data)) |->
       IF i > offset /\ i <= offset + Len(data) THEN data[i - offset]
       ELSE IF i <= Len(bytes) THEN bytes[i]
       ELSE 0]

\* the plugin has returned r: Some(response) ends the loop of handle_message,
\* None lets it go on with the plugins registered after FileTransferPlugin
FtReturned(c, r) ==
    Looped(c, IF r # NoMsg
              THEN [response |-> r,
                    trace |-> Append(trace[c], Invoked("file-transfer", cur[c], "Some"))]
              ELSE DispatchFrom(FtIndex + 1, Len(plugins), cur[c], NoPlugin,
                                Append(trace[c], Invoked("file-transfer", cur[c], "None"))))

\* a plugin that drops the sessions when it cannot create the file
FtCreate_DropOnFailure(c, ok) ==
    /\ pc[c] = "plugin"
    /\ cur[c].tag = "FileTransferRequest"
    /\ IF ok THEN
            /\ files' = [files EXCEPT ![cur[c].file_name] =
                           [exists |-> TRUE, bytes |-> <<>>]]
            /\ file' = [file EXCEPT ![c] =
                          [file_name |-> cur[c].file_name, live |-> TRUE]]
            /\ pc' = [pc EXCEPT ![c] = "insert"]
            /\ xfer' = NoXfer
            /\ UNCHANGED <<cur, resp, count, trace, active_transfers>>
       ELSE
            /\ FtReturned(c, FileTransferError(cur[c].file_name,
                                               "Failed to create file"))
            /\ active_transfers' = SessionRemove(active_transfers, cur[c].file_name)
            /\ UNCHANGED <<files, file, xfer>>
    /\ UNCHANGED <<shared_vars, listening, framing, wire, snap, result, nSent, unread,
                   cmp, keyGen, accepted, big, daemon_vars>>

\* FileTransferRequest: File::create(&file_path) makes the file or empties the
\* one there is; its failure is answered FileTransferError
FtCreate(c, ok) ==
    /\ pc[c] = "plugin"
    /\ cur[c].tag = "FileTransferRequest"
    /\ IF ok THEN
            /\ files' = [files EXCEPT ![cur[c].file_name] =
                           [exists |-> TRUE, bytes |-> <<>>]]
            /\ file' = [file EXCEPT ![c] =
                          [file_name |-> cur[c].file_name, live |-> TRUE]]
            /\ pc' = [pc EXCEPT ![c] = "insert"]
            /\ xfer' = NoXfer
            /\ UNCHANGED <<cur, resp, count, trace>>
       ELSE
            /\ FtReturned(c, FileTransferError(cur[c].file_name,
                                               "Failed to create file"))
            /\ UNCHANGED <<files, file, xfer>>
    /\ UNCHANGED <<shared_vars, listening, framing, wire, snap, result, nSent, unread,
                   cmp, keyGen, accepted, active_transfers, big, daemon_vars>>

\* FileTransferRequest, Ok(file): the File is kept under the name, None
FtInsert(c) ==
    /\ pc[c] = "insert"
    /\ active_transfers' = SessionInsert(active_transfers, file[c])
    /\ file' = [file EXCEPT ![c] = NoFile]
    /\ xfer' = [state |-> "open", file_name |-> cur[c].file_name,
                size |-> cur[c].file_size, got |-> <<>>]
    /\ FtReturned(c, NoMsg)
    /\ UNCHANGED <<shared_vars, listening, framing, wire, snap, result, nSent, unread,
                   cmp, keyGen, accepted, files, big, daemon_vars>>

\* a plugin that appends each chunk to the file, whatever its offset
FtChunk_Append(c, io) ==
    /\ pc[c] = "plugin"
    /\ cur[c].tag = "FileTransferChunk"
    /\ io = "ok"
    /\ LET name == cur[c].file_name
       IN IF Sessions(name) = {} THEN
               /\ FtReturned(c, NoMsg)
               /\ UNCHANGED <<files, xfer>>
          ELSE
               /\ files' = [files EXCEPT ![name].bytes = @ \o cur[c].chunk]
               /\ xfer' = IF xfer.state = "open" /\ xfer.file_name = name
                          THEN [xfer EXCEPT !.got = Append(@,
                                  [offset |-> cur[c].offset, chunk |-> cur[c].chunk])]
                          ELSE xfer
               /\ FtReturned(c, NoMsg)
    /\ UNCHANGED <<shared_vars, listening, framing, wire, snap, result, nSent, unread,
                   cmp, keyGen, accepted, active_transfers, file, big, daemon_vars>>

\* a plugin that takes a chunk without a session for the start of a file
FtChunk_CreateOnMissing(c, io) ==
    /\ pc[c] = "plugin"
    /\ cur[c].tag = "FileTransferChunk"
    /\ LET name == cur[c].file_name
           written(data) ==
               IF \E s \in Sessions(name) : s.live
               THEN [files EXCEPT ![name].bytes = WriteAt(@, cur[c].offset, data)]
               ELSE files
       IN IF Sessions(name) = {} THEN
               /\ io = "ok"
               /\ files' = [files EXCEPT ![name] =
                              [exists |-> TRUE,
                               bytes |-> WriteAt(<<>>, cur[c].offset, cur[c].chunk)]]
               /\ FtReturned(c, NoMsg)
               /\ UNCHANGED xfer
          ELSE IF io = "seek" THEN
               /\ FtReturned(c, FileTransferError(name, "Seek error"))
               /\ UNCHANGED <<files, xfer>>
          ELSE IF io = "write" THEN
               /\ \E k \in 0 .. Len(cur[c].chunk) - 1 :
                    files' = written(SubSeq(cur[c].chunk, 1, k))
               /\ xfer' = IF xfer.state = "open" /\ xfer.file_name = name
                          THEN NoXfer ELSE xfer
               /\ FtReturned(c, FileTransferError(name, "Write error"))
          ELSE
               /\ files' = written(cur[c].chunk)
               /\ xfer' = IF xfer.state = "open" /\ xfer.file_name = name
                          THEN [xfer EXCEPT !.got = Append(@,
                                  [offset |-> cur[c].offset, chunk |-> cur[c].chunk])]
                          ELSE xfer
               /\ FtReturned(c, NoMsg)
    /\ UNCHANGED <<shared_vars, listening, framing, wire, snap, result, nSent, unread,
                   cmp, keyGen, accepted, active_transfers, file, big, daemon_vars>>

\* a plugin that does not write over the bytes a chunk has written before
FtChunk_KeepFirst(c, io) ==
    /\ pc[c] = "plugin"
    /\ cur[c].tag = "FileTransferChunk"
    /\ LET name == cur[c].file_name
           written(data) ==
               IF \E s \in Sessions(name) : s.live
               THEN [files EXCEPT ![name].bytes =
                       [i \in 1 .. Len(WriteAt(@, cur[c].offset, data)) |->
                          IF i <= Len(@) /\ @[i] # 0 THEN @[i]
                          ELSE WriteAt(@, cur[c].offset, data)[i]]]
               ELSE files
       IN IF Sessions(name) = {} THEN
               /\ io = "ok"
               /\ FtReturned(c, NoMsg)
               /\ UNCHANGED <<files, xfer>>
          ELSE IF io = "seek" THEN
               /\ FtReturned(c, FileTransferError(name, "Seek error"))
               /\ UNCHANGED <<files, xfer>>
          ELSE IF io = "write" THEN
               /\ \E k \in 0 .. Len(cur[c].chunk) - 1 :
                    files' = written(SubSeq(cur[c].chunk, 1, k))
               /\ xfer' = IF xfer.state = "open" /\ xfer.file_name = name
                          THEN NoXfer ELSE xfer
               /\ FtReturned(c, FileTransferError(name, "Write error"))
          ELSE
               /\ files' = written(cur[c].chunk)
               /\ xfer' = IF xfer.state = "open" /\ xfer.file_name = name
                          THEN [xfer EXCEPT !.got = Append(@,
                                  [offset |-> cur[c].offset, chunk |-> cur[c].chunk])]
                          ELSE xfer
               /\ FtReturned(c, NoMsg)
    /\ UNCHANGED <<shared_vars, listening, framing, wire, snap, result, nSent, unread,
                   cmp, keyGen, accepted, active_transfers, file, big, daemon_vars>>

\* FileTransferChunk, under the lock of the sessions: with a session, the seek
\* and the write_all, whose failures are answered FileTransferError (a failed
\* write_all may have written a part of the chunk); without one, nothing
FtChunk(c, io) ==
    /\ pc[c] = "plugin"
    /\ cur[c].tag = "FileTransferChunk"
    /\ LET name == cur[c].file_name
           written(data) ==
               IF \E s \in Sessions(name) : s.live
               THEN [files EXCEPT ![name].bytes = WriteAt(@, cur[c].offset, data)]
               ELSE files
       IN IF Sessions(name) = {} THEN
               /\ io = "ok"
               /\ FtReturned(c, NoMsg)
               /\ UNCHANGED <<files, xfer>>
          ELSE IF io = "seek" THEN
               /\ FtReturned(c, FileTransferError(name, "Seek error"))
               /\ UNCHANGED <<files, xfer>>
          ELSE IF io = "write" THEN
               /\ \E k \in 0 .. Len(cur[c].chunk) - 1 :
                    files' = written(SubSeq(cur[c].chunk, 1, k))
               /\ xfer' = IF xfer.state = "open" /\ xfer.file_name = name
                          THEN NoXfer ELSE xfer
               /\ FtReturned(c, FileTransferError(name, "Write error"))
          ELSE
               /\ files' = written(cur[c].chunk)
               /\ xfer' = IF xfer.state = "open" /\ xfer.file_name = name
                          THEN [xfer EXCEPT !.got = Append(@,
                                  [offset |-> cur[c].offset, chunk |-> cur[c].chunk])]
                          ELSE xfer
               /\ FtReturned(c, NoMsg)
    /\ UNCHANGED <<shared_vars, listening, framing, wire, snap, result, nSent, unread,
                   cmp, keyGen, accepted, active_transfers, file, big, daemon_vars>>

\* FileTransferEnd: the session is removed, which closes the file; None
FtEnd(c) ==
    /\ pc[c] = "plugin"
    /\ cur[c].tag = "FileTransferEnd"
    /\ active_transfers' = SessionRemove(active_transfers, cur[c].file_name)
    /\ xfer' = IF xfer.state = "open" /\ xfer.file_name = cur[c].file_name
               THEN [xfer EXCEPT !.state = "ended"] ELSE xfer
    /\ FtReturned(c, NoMsg)
    /\ UNCHANGED <<shared_vars, listening, framing, wire, snap, result, nSent, unread,
                   cmp, keyGen, accepted, files, file, big, daemon_vars>>

\* FileTransferError: the session is removed under the lock
FtErrorRemove(c) ==
    /\ pc[c] = "plugin"
    /\ cur[c].tag = "FileTransferError"
    /\ active_transfers' = SessionRemove(active_transfers, cur[c].file_name)
    /\ pc' = [pc EXCEPT ![c] = "unlink"]
    /\ xfer' = IF xfer.state = "open" /\ xfer.file_name = cur[c].file_name
               THEN [xfer EXCEPT !.state = "failed"] ELSE xfer
    /\ UNCHANGED <<shared_vars, listening, framing, wire, snap, result, nSent, unread,
                   cmp, keyGen, accepted, files, file, cur, resp, count, trace, big, daemon_vars>>

\* FileTransferError: std::fs::remove_file(&file_path), whose failure is
\* logged only; the Files open on a removed file write to no file of the
\* directory any more; None
FtUnlink(c, ok) ==
    /\ pc[c] = "unlink"
    /\ ok => files[cur[c].file_name].exists
    /\ LET name == cur[c].file_name
           unlinked(f) == IF f.file_name = name THEN [f EXCEPT !.live = FALSE] ELSE f
       IN IF ok THEN
               /\ files' = [files EXCEPT ![name] = NoBytes]
               /\ active_transfers' = {unlinked(s) : s \in active_transfers}
               /\ file' = [d \in Conns |-> unlinked(file[d])]
               /\ xfer' = IF xfer.state # "none" /\ xfer.file_name = name
                          THEN NoXfer ELSE xfer
          ELSE UNCHANGED <<files, active_transfers, file, xfer>>
    /\ FtReturned(c, NoMsg)
    /\ UNCHANGED <<shared_vars, listening, framing, wire, snap, result, nSent, unread,
                   cmp, keyGen, accepted, big, daemon_vars>>

\* ------------------------------------------------------ writing the response

\* stream.write_all(response + "\n") returns Ok
WriteOk(c) ==
    /\ pc[c] = "write"
    /\ count' = [count EXCEPT ![c].finished = @ + 1, ![c].answered = @ + 1]
    /\ accepted' =
         IF cur[c].tag = "RequestPairingWithKey" /\ resp[c].tag = "PairingAccepted"
         THEN accepted \cup {[conn |-> c, key |-> cur[c].pairing_key,
                              gen |-> cmp[c].gen]}
         ELSE accepted
    /\ pc' = [pc EXCEPT ![c] = "read"]
    /\ cur' = [cur EXCEPT ![c] = NoMsg]
    /\ resp' = [resp EXCEPT ![c] = NoMsg]
    /\ cmp' = [cmp EXCEPT ![c] = NoCmp]
    /\ trace' = [trace EXCEPT ![c] = <<>>]
    /\ UNCHANGED <<shared_vars, listening, framing, wire, snap, result, nSent, unread,
                   keyGen, ft_vars, file, big, daemon_vars>>

\* Ok(Err(e)): the write failed
WriteError(c) ==
    /\ pc[c] = "write"
    /\ Return(c, "NetworkError")
    /\ UNCHANGED <<shared_vars, nSent, count, keyGen, accepted>>
    /\ UNCHANGED <<ft_vars, big, daemon_vars>>

\* Err(_): the write did not finish within CONNECTION_TIMEOUT
WriteTimeout(c) ==
    /\ pc[c] = "write"
    /\ Return(c, "Timeout")
    /\ UNCHANGED <<shared_vars, nSent, count, keyGen, accepted>>
    /\ UNCHANGED <<ft_vars, big, daemon_vars>>

\* --------------------------------------------------------------- the system

Next ==
    \E c \in Conns :
        \/ \E f \in Framings : Accept(c, f)
        \/ AcceptError(c)
        \/ \E m \in ClientMessages : ClientSend(c, m)
        \/ Read(c)
        \/ ReadEof(c)
        \/ ReadError(c)
        \/ ReadTimeout(c)
        \/ LegacyInsert(c)
        \/ KeyedCompare(c)
        \/ KeyedInsert(c)
        \/ SaveSnapshot(c)
        \/ \E ok \in BOOLEAN : SaveWrite(c, ok)
        \/ \E n \in RngValues : KeyedNewKey(c, n)
        \/ Route(c)
        \/ WriteOk(c)
        \/ WriteError(c)
        \/ WriteTimeout(c)

Spec == Init /\ [][Next]_vars

\* ------------------------------------------------- the daemon and its plugins

\* a clipboard text longer than the daemon takes a message to be
LongText == Str("x", MAX_MESSAGE_SIZE)

\* the messages of a client that talks to the plugins
PluginMessages ==
    {Ping, RequestClipboard, ClipboardSync(LongText), FileTransferRequest("f", 1)}

\* Daemon::new on a later run: load_paired_devices finds the device paired
\* before in paired_devices.json
InitPlugins ==
    /\ paired_devices = {m.info : m \in LegacyRequests}
    /\ pairing_key \in PairingKeys
    /\ disk = Values({m.info : m \in LegacyRequests})
    /\ listening = TRUE
    /\ framing = [c \in Conns |-> "none"]
    /\ pc = [c \in Conns |-> "new"]
    /\ wire = [c \in Conns |-> <<>>]
    /\ cur = [c \in Conns |-> NoMsg]
    /\ snap = [c \in Conns |-> <<>>]
    /\ resp = [c \in Conns |-> NoMsg]
    /\ result = [c \in Conns |-> "running"]
    /\ nSent = 0
    /\ unread = [c \in Conns |-> <<>>]
    /\ count = [c \in Conns |-> NoCount]
    /\ cmp = [c \in Conns |-> NoCmp]
    /\ keyGen = 0
    /\ accepted = {}
    /\ active_transfers = {}
    /\ files = [f \in FileNames |-> NoBytes]
    /\ file = [c \in Conns |-> NoFile]
    /\ xfer = NoXfer
    /\ trace = [c \in Conns |-> <<>>]
    /\ big = [c \in Conns |-> "no"]
    /\ clipboard = NoClipboard
    /\ start = "select"
    /\ discovery = "running"
    /\ locks = NoLocks

NextPlugins ==
    \E c \in Conns :
        \/ \E f \in Framings : Accept(c, f)
        \/ \E m \in PluginMessages : ClientSend(c, m)
        \/ Read(c)
        \/ ReadEof(c)
        \/ ReadError(c)
        \/ ReadTimeout(c)
        \/ Route(c)
        \/ \E p \in FallibleHandlers : RouteFailing(c, p)
        \/ \E ok \in BOOLEAN : FtCreate(c, ok)
        \/ FtInsert(c)
        \/ WriteOk(c)
        \/ WriteError(c)
        \/ WriteTimeout(c)

SpecPlugins == InitPlugins /\ [][NextPlugins]_vars

\* ---------------------------------------------------- one file transfer

\* the bytes l long at the offset of the file the client sends
Source(offset, l) == [i \in 1 .. l |-> offset + i]

\* the byte at the offset of another version of that file
Revised(offset) == <<offset + 1 + MaxSize>>

\* the messages of commands::send_file for a file of up to MaxSize bytes, cut
\* into chunks anyhow, single bytes of another version of the file, and the
\* error a peer may report
FtMessages ==
    {FileTransferRequest("f", n) : n \in 1 .. MaxSize}
    \cup {FileTransferChunk("f", Source(ol[1], ol[2]), ol[1]) :
            ol \in {x \in (0 .. MaxSize - 1) \X (1 .. MaxSize) :
                      x[1] + x[2] <= MaxSize}}
    \cup {FileTransferChunk("f", Revised(o), o) : o \in 0 .. MaxSize - 1}
    \cup {FileTransferEnd("f"), FileTransferError("f", "cancelled")}

\* a file left in the download directory by an earlier transfer
StaleFile == [exists |-> TRUE, bytes |-> [i \in 1 .. MaxSize + 1 |-> 0]]

\* the daemon with one connection accepted, and no other client
InitFT ==
    /\ paired_devices = {}
    /\ pairing_key \in PairingKeys
    /\ disk = <<>>
    /\ listening = TRUE
    /\ framing = [c \in Conns |-> IF c = "c1" THEN "raw" ELSE "none"]
    /\ pc = [c \in Conns |-> IF c = "c1" THEN "read" ELSE "new"]
    /\ wire = [c \in Conns |-> <<>>]
    /\ cur = [c \in Conns |-> NoMsg]
    /\ snap = [c \in Conns |-> <<>>]
    /\ resp = [c \in Conns |-> NoMsg]
    /\ result = [c \in Conns |-> "running"]
    /\ nSent = 0
    /\ unread = [c \in Conns |-> <<>>]
    /\ count = [c \in Conns |-> NoCount]
    /\ cmp = [c \in Conns |-> NoCmp]
    /\ keyGen = 0
    /\ accepted = {}
    /\ active_transfers = {}
    /\ files \in [FileNames -> {NoBytes, StaleFile}]
    /\ file = [c \in Conns |-> NoFile]
    /\ xfer = NoXfer
    /\ trace = [c \in Conns |-> <<>>]
    /\ big = [c \in Conns |-> "no"]
    /\ clipboard = NoClipboard
    /\ start = "select"
    /\ discovery = "running"
    /\ locks = NoLocks

\* the client writes m and the next read returns the bytes of m, all of them
\* and no other: m is decoded
Deliver(c, m) ==
    /\ pc[c] = "read"
    /\ wire[c] = <<>>
    /\ nSent < MaxFtMsgs
    /\ from_slice(Encode(m)) = m
    /\ ByteLen(Encode(m)) <= BUFFER_LEN
    /\ nSent' = nSent + 1
    /\ pc' = [pc EXCEPT ![c] = "handle"]
    /\ cur' = [cur EXCEPT ![c] = m]
    /\ count' = [count EXCEPT ![c].decoded = @ + 1]
    /\ trace' = [trace EXCEPT ![c] = <<>>]
    /\ UNCHANGED <<shared_vars, listening, framing, wire, snap, resp, result, unread,
                   cmp, keyGen, accepted, ft_vars, file, big, daemon_vars>>

NextFT ==
    \E c \in Conns :
        \/ \E m \in FtMessages : Deliver(c, m)
        \/ Route(c)
        \/ \E ok \in BOOLEAN : FtCreate(c, ok)
        \/ FtInsert(c)
        \/ \E io \in {"ok", "seek", "write"} : FtChunk(c, io)
        \/ FtEnd(c)
        \/ FtErrorRemove(c)
        \/ \E ok \in BOOLEAN : FtUnlink(c, ok)
        \/ WriteOk(c)
        \/ ReadEof(c)

SpecFT == InitFT /\ [][NextFT]_vars

\* ------------------------------------------------- the clipboard in use

\* the texts a client may put on the clipboard
Texts == {Str("a", 1), Str("b", 1)}

\* the messages of a client that shares its clipboard
ClipboardMessages == {ClipboardSync(t) : t \in Texts} \cup {RequestClipboard}

\* the daemon with both connections accepted; ClipboardSyncPlugin::new has
\* found a clipboard or none, and the clipboard has no text yet
InitClipboard ==
    /\ paired_devices = {}
    /\ pairing_key \in PairingKeys
    /\ disk = <<>>
    /\ listening = TRUE
    /\ framing = [c \in Conns |-> "raw"]
    /\ pc = [c \in Conns |-> "read"]
    /\ wire = [c \in Conns |-> <<>>]
    /\ cur = [c \in Conns |-> NoMsg]
    /\ snap = [c \in Conns |-> <<>>]
    /\ resp = [c \in Conns |-> NoMsg]
    /\ result = [c \in Conns |-> "running"]
    /\ nSent = 0
    /\ unread = [c \in Conns |-> <<>>]
    /\ count = [c \in Conns |-> NoCount]
    /\ cmp = [c \in Conns |-> NoCmp]
    /\ keyGen = 0
    /\ accepted = {}
    /\ active_transfers = {}
    /\ files = [n \in FileNames |-> NoBytes]
    /\ file = [c \in Conns |-> NoFile]
    /\ xfer = NoXfer
    /\ trace = [c \in Conns |-> <<>>]
    /\ big = [c \in Conns |-> "no"]
    /\ clipboard \in {[mode |-> md, text |-> Str("", 0)] : md \in ClipboardModes}
    /\ start = "select"
    /\ discovery = "running"
    /\ locks = NoLocks

NextClipboard ==
    \E c \in Conns :
        \/ \E m \in ClipboardMessages : Deliver(c, m)
        \/ Route(c)
        \/ WriteOk(c)
        \/ ReadEof(c)

SpecClipboard == InitClipboard /\ [][NextClipboard]_vars

\* ------------------------------------------- two devices pairing at once

\* the legacy requests of two devices
PairingRequests ==
    {RequestPairing(DeviceInfo("d1", "n1", "Mobile", <<>>)),
     RequestPairing(DeviceInfo("d2", "n2", "Desktop", <<>>))}

\* the daemon on a first run with both connections accepted
InitPairings ==
    /\ paired_devices = {}
    /\ pairing_key \in PairingKeys
    /\ disk = <<>>
    /\ listening = TRUE
    /\ framing = [c \in Conns |-> "raw"]
    /\ pc = [c \in Conns |-> "read"]
    /\ wire = [c \in Conns |-> <<>>]
    /\ cur = [c \in Conns |-> NoMsg]
    /\ snap = [c \in Conns |-> <<>>]
    /\ resp = [c \in Conns |-> NoMsg]
    /\ result = [c \in Conns |-> "running"]
    /\ nSent = 0
    /\ unread = [c \in Conns |-> <<>>]
    /\ count = [c \in Conns |-> NoCount]
    /\ cmp = [c \in Conns |-> NoCmp]
    /\ keyGen = 0
    /\ accepted = {}
    /\ active_transfers = {}
    /\ files = [n \in FileNames |-> NoBytes]
    /\ file = [c \in Conns |-> NoFile]
    /\ xfer = NoXfer
    /\ trace = [c \in Conns |-> <<>>]
    /\ big = [c \in Conns |-> "no"]
    /\ clipboard = NoClipboard
    /\ start = "select"
    /\ discovery = "running"
    /\ locks = NoLocks

\* the handlers of the two connections, every fs::write succeeding
NextPairings ==
    \E c \in Conns :
        \/ \E m \in PairingRequests : Deliver(c, m)
        \/ LegacyInsert(c)
        \/ SaveSnapshot(c)
        \/ SaveWrite(c, TRUE)
        \/ WriteOk(c)
        \/ ReadEof(c)

SpecPairings == InitPairings /\ [][NextPairings]_vars

\* ------------------------------------------------------------ Daemon::start

\* the peers mDNS may resolve: the full name of the service and its
\* device_type property ("" when the peer advertises none)
MdnsPeers == {[fullname |-> "p1", device_type |-> "mobile"],
              [fullname |-> "p2", device_type |-> ""]}

\* what Daemon::start may return
StartErrors == {"MdnsInitialization", "MdnsRegistration", "MdnsBrowsing", "ServerStart"}
StartReturned == StartErrors \cup {"Ok"}

\* main returns what start returned and the runtime is dropped: the accept
\* loop, the discovery task and the handlers are cancelled where they wait
Exit ==
    /\ listening' = FALSE
    /\ discovery' = IF discovery = "running" THEN "aborted" ELSE discovery
    /\ pc' = [c \in Conns |-> IF pc[c] \in {"new", "done"} THEN pc[c] ELSE "aborted"]

\* start_mdns_discovery: ServiceDaemon::new and ServiceInfo::new, `?` on each
MdnsCreate(ok) ==
    /\ start = "create"
    /\ start' = IF ok THEN "register" ELSE "MdnsInitialization"
    /\ discovery' = IF ok THEN discovery ELSE "failed"
    /\ UNCHANGED <<shared_vars, listening, framing, pc, wire, cur, snap, resp, result,
                   hist_vars, ft_vars, file, trace, big, clipboard, locks>>

\* start_mdns_discovery: mdns.register(service_info)?
MdnsRegister(ok) ==
    /\ start = "register"
    /\ start' = IF ok THEN "browse" ELSE "MdnsRegistration"
    /\ discovery' = IF ok THEN discovery ELSE "failed"
    /\ UNCHANGED <<shared_vars, listening, framing, pc, wire, cur, snap, resp, result,
                   hist_vars, ft_vars, file, trace, big, clipboard, locks>>

\* start_mdns_discovery: mdns.browse(MDNS_SERVICE_TYPE)?, then the task that
\* receives the events is spawned and start goes on to start_tcp_server
MdnsBrowse(ok) ==
    /\ start = "browse"
    /\ start' = IF ok THEN "bind" ELSE "MdnsBrowsing"
    /\ discovery' = IF ok THEN "running" ELSE "failed"
    /\ UNCHANGED <<shared_vars, listening, framing, pc, wire, cur, snap, resp, result,
                   hist_vars, ft_vars, file, trace, big, clipboard, locks>>

\* start_tcp_server: TcpListener::bind(..)?, then the accept loop is spawned
\* and start waits in select!; a failed bind is returned by start
Bind(ok) ==
    /\ start = "bind"
    /\ IF ok THEN /\ start' = "select"
                  /\ listening' = TRUE
                  /\ UNCHANGED <<discovery, pc>>
       ELSE /\ start' = "ServerStart"
            /\ Exit
    /\ UNCHANGED <<shared_vars, framing, wire, cur, snap, resp, result,
                   hist_vars, ft_vars, file, trace, big, clipboard, locks>>

\* a discovery that leaves alone the entry an id already has
ServiceResolved_KeepExisting(p) ==
    /\ discovery = "running"
    /\ paired_devices' =
         IF \E e \in paired_devices : e.id = p.fullname THEN paired_devices
         ELSE HashMapInsert(paired_devices,
                            DeviceInfo(p.fullname, p.fullname,
                                       IF p.device_type = "mobile" THEN "Mobile"
                                       ELSE "Desktop",
                                       <<>>))
    /\ UNCHANGED <<pairing_key, disk, listening, framing, pc, wire, cur, snap, resp,
                   result, hist_vars, ft_vars, file, trace, big, daemon_vars>>

\* ServiceEvent::ServiceResolved: the peer is inserted in the registry under
\* its full name, Mobile if it says "mobile" and Desktop otherwise
ServiceResolved(p) ==
    /\ discovery = "running"
    /\ paired_devices' =
         HashMapInsert(paired_devices,
                       DeviceInfo(p.fullname, p.fullname,
                                  IF p.device_type = "mobile" THEN "Mobile"
                                  ELSE "Desktop",
                                  <<>>))
    /\ UNCHANGED <<pairing_key, disk, listening, framing, pc, wire, cur, snap, resp,
                   result, hist_vars, ft_vars, file, trace, big, daemon_vars>>

\* a discovery that rewrites the document when a peer has gone
ServiceRemoved_Save(p) ==
    /\ discovery = "running"
    /\ paired_devices' = {e \in paired_devices : e.id # p.fullname}
    /\ disk' = Values(paired_devices')
    /\ UNCHANGED <<pairing_key, listening, framing, pc, wire, cur, snap, resp,
                   result, hist_vars, ft_vars, file, trace, big, daemon_vars>>

\* ServiceEvent::ServiceRemoved: the entry of that full name is removed
ServiceRemoved(p) ==
    /\ discovery = "running"
    /\ paired_devices' = {e \in paired_devices : e.id # p.fullname}
    /\ UNCHANGED <<pairing_key, disk, listening, framing, pc, wire, cur, snap, resp,
                   result, hist_vars, ft_vars, file, trace, big, daemon_vars>>

\* recv_async returns Err, the stream of events has ended: the `while let`
\* loop is left and the task finishes with Ok(())
StreamEnd ==
    /\ discovery = "running"
    /\ discovery' = "finished"
    /\ UNCHANGED <<shared_vars, listening, framing, pc, wire, cur, snap, resp, result,
                   hist_vars, ft_vars, file, trace, big, clipboard, start, locks>>

\* a start that waits for both tasks
StartReturn_Join ==
    /\ start = "select"
    /\ discovery = "finished" /\ ~listening
    /\ start' = "Ok"
    /\ Exit
    /\ UNCHANGED <<shared_vars, framing, wire, cur, snap, resp, result,
                   hist_vars, ft_vars, file, trace, big, clipboard, locks>>

\* tokio::select! on the two JoinHandles: the first task to finish completes
\* it and start returns Ok(()); the accept loop has no way out of its `loop`
StartReturn ==
    /\ start = "select"
    /\ discovery = "finished" \/ ~listening
    /\ start' = "Ok"
    /\ Exit
    /\ UNCHANGED <<shared_vars, framing, wire, cur, snap, resp, result,
                   hist_vars, ft_vars, file, trace, big, clipboard, locks>>

\* Daemon::new on a first run; start has been called and nothing started yet
InitStart ==
    /\ paired_devices = {}
    /\ pairing_key \in PairingKeys
    /\ disk = <<>>
    /\ listening = FALSE
    /\ framing = [c \in Conns |-> "none"]
    /\ pc = [c \in Conns |-> "new"]
    /\ wire = [c \in Conns |-> <<>>]
    /\ cur = [c \in Conns |-> NoMsg]
    /\ snap = [c \in Conns |-> <<>>]
    /\ resp = [c \in Conns |-> NoMsg]
    /\ result = [c \in Conns |-> "running"]
    /\ nSent = 0
    /\ unread = [c \in Conns |-> <<>>]
    /\ count = [c \in Conns |-> NoCount]
    /\ cmp = [c \in Conns |-> NoCmp]
    /\ keyGen = 0
    /\ accepted = {}
    /\ active_transfers = {}
    /\ files = [n \in FileNames |-> NoBytes]
    /\ file = [c \in Conns |-> NoFile]
    /\ xfer = NoXfer
    /\ trace = [c \in Conns |-> <<>>]
    /\ big = [c \in Conns |-> "no"]
    /\ clipboard = NoClipboard
    /\ start = "create"
    /\ discovery = "none"
    /\ locks = NoLocks

NextStart ==
    \/ \E ok \in BOOLEAN : MdnsCreate(ok)
    \/ \E ok \in BOOLEAN : MdnsRegister(ok)
    \/ \E ok \in BOOLEAN : MdnsBrowse(ok)
    \/ \E ok \in BOOLEAN : Bind(ok)
    \/ \E p \in MdnsPeers : ServiceResolved(p)
    \/ \E p \in MdnsPeers : ServiceRemoved(p)
    \/ StreamEnd
    \/ StartReturn
    \/ \E c \in Conns :
          \/ Accept(c, "raw")
          \/ Deliver(c, Ping)
          \/ Route(c)
          \/ WriteOk(c)
          \/ ReadEof(c)

SpecStart == InitStart /\ [][NextStart]_vars

\* ------------------------------------------- discovery beside the pairings

\* the messages of clients beside a running discovery: a legacy request under
\* the full name of peer p1, a keyed request of device d1 with the first
\* code, and a Ping
DiscoveryMessages ==
    {RequestPairing(DeviceInfo("p1", "n1", "Mobile", <<"ClipboardSync">>)),
     RequestPairingWithKey("d1", "n1", "Desktop", <<"FileTransfer">>, ClientKeys[1]),
     Ping}

\* the daemon on a first run, started, with one connection accepted
InitDiscovery ==
    /\ paired_devices = {}
    /\ pairing_key \in PairingKeys
    /\ disk = <<>>
    /\ listening = TRUE
    /\ framing = [c \in Conns |-> IF c = "c1" THEN "raw" ELSE "none"]
    /\ pc = [c \in Conns |-> IF c = "c1" THEN "read" ELSE "new"]
    /\ wire = [c \in Conns |-> <<>>]
    /\ cur = [c \in Conns |-> NoMsg]
    /\ snap = [c \in Conns |-> <<>>]
    /\ resp = [c \in Conns |-> NoMsg]
    /\ result = [c \in Conns |-> "running"]
    /\ nSent = 0
    /\ unread = [c \in Conns |-> <<>>]
    /\ count = [c \in Conns |-> NoCount]
    /\ cmp = [c \in Conns |-> NoCmp]
    /\ keyGen = 0
    /\ accepted = {}
    /\ active_transfers = {}
    /\ files = [n \in FileNames |-> NoBytes]
    /\ file = [c \in Conns |-> NoFile]
    /\ xfer = NoXfer
    /\ trace = [c \in Conns |-> <<>>]
    /\ big = [c \in Conns |-> "no"]
    /\ clipboard = NoClipboard
    /\ start = "select"
    /\ discovery = "running"
    /\ locks = NoLocks

NextDiscovery ==
    \/ \E p \in MdnsPeers : ServiceResolved(p)
    \/ \E p \in MdnsPeers : ServiceRemoved(p)
    \/ \E c \in Conns :
          \/ \E m \in DiscoveryMessages : Deliver(c, m)
          \/ LegacyInsert(c)
          \/ KeyedCompare(c)
          \/ KeyedInsert(c)
          \/ SaveSnapshot(c)
          \/ \E ok \in BOOLEAN : SaveWrite(c, ok)
          \/ \E n \in RngValues : KeyedNewKey(c, n)
          \/ Route(c)
          \/ WriteOk(c)
          \/ ReadEof(c)

SpecDiscovery == InitDiscovery /\ [][NextDiscovery]_vars

\* ------------------------------------------------------- the next start

\* load_paired_devices: the devices of the document are inserted one by one
\* in the empty registry
RECURSIVE load_paired_devices(_)
load_paired_devices(doc) ==
    IF doc = <<>> THEN {}
    ELSE HashMapInsert(load_paired_devices(SubSeq(doc, 1, Len(doc) - 1)),
                       doc[Len(doc)])

\* the daemon is stopped and started again: what the process held is gone,
\* Daemon::new loads the document and draws a code, start starts the
\* discovery and the listener
Restart ==
    /\ paired_devices' = load_paired_devices(disk)
    /\ \E n \in RngValues : pairing_key' = generate_pairing_key(n)
    /\ pc' = [c \in Conns |-> IF pc[c] \in {"new", "done"} THEN pc[c] ELSE "aborted"]
    /\ cur' = [c \in Conns |-> NoMsg]
    /\ resp' = [c \in Conns |-> NoMsg]
    /\ snap' = [c \in Conns |-> <<>>]
    /\ wire' = [c \in Conns |-> <<>>]
    /\ unread' = [c \in Conns |-> <<>>]
    /\ cmp' = [c \in Conns |-> NoCmp]
    /\ file' = [c \in Conns |-> NoFile]
    /\ trace' = [c \in Conns |-> <<>>]
    /\ active_transfers' = {}
    /\ listening' = TRUE
    /\ start' = "select"
    /\ discovery' = "running"
    /\ UNCHANGED <<disk, framing, result, nSent, count, keyGen, accepted, files, xfer,
                   big, clipboard, locks>>

NextRestart == NextDiscovery \/ Restart

SpecRestart == InitDiscovery /\ [][NextRestart]_vars

\* ------------------------------------------------- the two locks, step by step

\* the lock a handler is about to take: the code for the comparison and for
\* the replacement, the registry for the insert and for the snapshot
Wants(c) ==
    IF pc[c] = "handle" /\ cur[c].tag = "RequestPairingWithKey" THEN "pairing_key"
    ELSE IF pc[c] = "handle" /\ cur[c].tag = "RequestPairing" THEN "paired_devices"
    ELSE IF pc[c] \in {"insert", "save"} THEN "paired_devices"
    ELSE IF pc[c] = "newkey" THEN "pairing_key"
    ELSE "none"

\* Mutex::lock returns to the handler: the lock was free and is now its own
Lock(c) ==
    /\ Wants(c) \in LockNames
    /\ locks[Wants(c)] = "free"
    /\ locks' = [locks EXCEPT ![Wants(c)] = c]
    /\ UNCHANGED <<shared_vars, listening, framing, pc, wire, cur, snap, resp, result,
                   hist_vars, ft_vars, file, trace, big, clipboard, start, discovery>>

\* the guard of lock l goes out of scope at the end of its block
Unlock(c, l) == locks' = [locks EXCEPT ![l] = IF @ = c THEN "free" ELSE @]

\* a comparison that leaves its guard alive
CompareLocked_KeepCode(c) ==
    /\ locks["pairing_key"] = c
    /\ pc[c] = "handle"
    /\ cmp' = [cmp EXCEPT ![c] = [@ EXCEPT !.key = pairing_key, !.gen = keyGen]]
    /\ IF pairing_key = cur[c].pairing_key
       THEN /\ pc' = [pc EXCEPT ![c] = "insert"]
            /\ UNCHANGED <<resp, cur, count, locks>>
       ELSE /\ Returned(c, PairingRejected(cur[c].id, "Invalid pairing key"))
            /\ Unlock(c, "pairing_key")
    /\ UNCHANGED <<shared_vars, listening, framing, wire, snap, result, nSent, unread,
                   keyGen, accepted, ft_vars, file, trace, big, clipboard, start,
                   discovery>>

\* `let valid_key = { let key = pairing_key.lock()?; *key == provided_key };`
CompareLocked(c) ==
    /\ locks["pairing_key"] = c
    /\ pc[c] = "handle"
    /\ cmp' = [cmp EXCEPT ![c] = [@ EXCEPT !.key = pairing_key, !.gen = keyGen]]
    /\ IF pairing_key = cur[c].pairing_key
       THEN /\ pc' = [pc EXCEPT ![c] = "insert"]
            /\ UNCHANGED <<resp, cur, count>>
       ELSE Returned(c, PairingRejected(cur[c].id, "Invalid pairing key"))
    /\ Unlock(c, "pairing_key")
    /\ UNCHANGED <<shared_vars, listening, framing, wire, snap, result, nSent, unread,
                   keyGen, accepted, ft_vars, file, trace, big, clipboard, start,
                   discovery>>

\* `{ let mut devices = paired_devices.lock()?; devices.insert(..); }` of
\* either pairing arm
InsertLocked(c) ==
    /\ locks["paired_devices"] = c
    /\ pc[c] \in {"handle", "insert"}
    /\ paired_devices' =
         HashMapInsert(paired_devices,
                       IF pc[c] = "handle" THEN cur[c].info ELSE KeyedDeviceInfo(cur[c]))
    /\ cmp' = [cmp EXCEPT ![c].done = IF pc[c] = "insert" THEN Append(@, "insert") ELSE @]
    /\ pc' = [pc EXCEPT ![c] = "save"]
    /\ Unlock(c, "paired_devices")
    /\ UNCHANGED <<pairing_key, disk, listening, framing, wire, cur, snap, resp, result,
                   nSent, unread, count, keyGen, accepted, ft_vars, file, trace, big,
                   clipboard, start, discovery>>

\* save_paired_devices_static: the values are cloned inside the guard's block
SnapshotLocked(c) ==
    /\ locks["paired_devices"] = c
    /\ pc[c] = "save"
    /\ snap' = [snap EXCEPT ![c] = Values(paired_devices)]
    /\ pc' = [pc EXCEPT ![c] = "fswrite"]
    /\ Unlock(c, "paired_devices")
    /\ UNCHANGED <<shared_vars, listening, framing, wire, cur, resp, result, hist_vars,
                   ft_vars, file, trace, big, clipboard, start, discovery>>

\* `{ let mut key = pairing_key.lock()?; *key = new_key.clone(); }`, then
\* PairingAccepted is returned; every guard the handler has is dropped by then
NewKeyLocked(c, n) ==
    /\ locks["pairing_key"] = c
    /\ pc[c] = "newkey"
    /\ pairing_key' = generate_pairing_key(n)
    /\ keyGen' = keyGen + 1
    /\ Returned(c, PairingAccepted(KeyedDeviceInfo(cur[c]).id))
    /\ cmp' = [cmp EXCEPT ![c].done = Append(@, "newkey")]
    /\ Unlock(c, "pairing_key")
    /\ UNCHANGED <<paired_devices, disk, listening, framing, wire, snap, result, nSent,
                   unread, accepted, ft_vars, file, trace, big, clipboard, start,
                   discovery>>

\* the discovery task has an event to apply: `if let Ok(mut devices) =
\* paired_devices.lock()` returns once the lock is free
DiscoveryLock ==
    /\ discovery = "running"
    /\ locks["paired_devices"] = "free"
    /\ locks' = [locks EXCEPT !["paired_devices"] = "discovery"]
    /\ UNCHANGED <<shared_vars, listening, framing, pc, wire, cur, snap, resp, result,
                   hist_vars, ft_vars, file, trace, big, clipboard, start, discovery>>

\* devices.insert / devices.remove of the event, and the end of the `if let`
DiscoveryLocked(p, resolved) ==
    /\ locks["paired_devices"] = "discovery"
    /\ paired_devices' =
         IF resolved
         THEN HashMapInsert(paired_devices,
                            DeviceInfo(p.fullname, p.fullname,
                                       IF p.device_type = "mobile" THEN "Mobile"
                                       ELSE "Desktop",
                                       <<>>))
         ELSE {e \in paired_devices : e.id # p.fullname}
    /\ Unlock("discovery", "paired_devices")
    /\ UNCHANGED <<pairing_key, disk, listening, framing, pc, wire, cur, snap, resp,
                   result, hist_vars, ft_vars, file, trace, big, clipboard, start,
                   discovery>>

\* Deliver, for clients that write MaxMsgs messages in all
DeliverFew(c, m) ==
    /\ nSent < MaxMsgs
    /\ Deliver(c, m)

\* the requests of the clients whose handlers take the locks
LockMessages ==
    {RequestPairing(DeviceInfo("d1", "n3", "Mobile", <<>>)),
     RequestPairingWithKey("d2", "n1", "Desktop", <<>>, ClientKeys[1])}

\* the peer whose events the discovery task applies
LockPeers == {p \in MdnsPeers : p.fullname = "p1"}

NextLocks ==
    \/ DiscoveryLock
    \/ \E p \in LockPeers : \E resolved \in BOOLEAN : DiscoveryLocked(p, resolved)
    \/ \E c \in Conns :
          \/ \E m \in LockMessages : DeliverFew(c, m)
          \/ Lock(c)
          \/ CompareLocked(c)
          \/ InsertLocked(c)
          \/ SnapshotLocked(c)
          \/ SaveWrite(c, TRUE)
          \/ \E n \in RngValues : NewKeyLocked(c, n)
          \/ WriteOk(c)
          \/ ReadEof(c)

SpecLocks == InitPairings /\ [][NextLocks]_vars

\* ------------------------------------- a peer served, paired or not paired

\* the messages of a client that may pair with the first code and, before or
\* after or without that, talks to the plugins
ServedMessages ==
    {RequestPairingWithKey("d1", "n1", "Desktop", <<>>, ClientKeys[1]),
     Ping, RequestClipboard, ClipboardSync(Str("a", 1))}

\* the daemon on a first run, started, with one connection accepted and a
\* clipboard, or none
InitServed ==
    /\ paired_devices = {}
    /\ pairing_key \in PairingKeys
    /\ disk = <<>>
    /\ listening = TRUE
    /\ framing = [c \in Conns |-> IF c = "c1" THEN "raw" ELSE "none"]
    /\ pc = [c \in Conns |-> IF c = "c1" THEN "read" ELSE "new"]
    /\ wire = [c \in Conns |-> <<>>]
    /\ cur = [c \in Conns |-> NoMsg]
    /\ snap = [c \in Conns |-> <<>>]
    /\ resp = [c \in Conns |-> NoMsg]
    /\ result = [c \in Conns |-> "running"]
    /\ nSent = 0
    /\ unread = [c \in Conns |-> <<>>]
    /\ count = [c \in Conns |-> NoCount]
    /\ cmp = [c \in Conns |-> NoCmp]
    /\ keyGen = 0
    /\ accepted = {}
    /\ active_transfers = {}
    /\ files = [n \in FileNames |-> NoBytes]
    /\ file = [c \in Conns |-> NoFile]
    /\ xfer = NoXfer
    /\ trace = [c \in Conns |-> <<>>]
    /\ big = [c \in Conns |-> "no"]
    /\ clipboard \in {[mode |-> md, text |-> Str("", 0)] : md \in {"none", "ok"}}
    /\ start = "select"
    /\ discovery = "running"
    /\ locks = NoLocks

NextServed ==
    \/ \E p \in LockPeers : ServiceResolved(p)
    \/ \E p \in LockPeers : ServiceRemoved(p)
    \/ \E c \in Conns :
          \/ \E m \in ServedMessages : DeliverFew(c, m)
          \/ KeyedCompare(c)
          \/ KeyedInsert(c)
          \/ SaveSnapshot(c)
          \/ SaveWrite(c, TRUE)
          \/ \E n \in RngValues : KeyedNewKey(c, n)
          \/ Route(c)
          \/ WriteOk(c)

SpecServed == InitServed /\ [][NextServed]_vars

\* ------------------------------------------ one file name, two connections

\* what two clients send about the one file: the request, its one byte, the
\* end, and the error a peer may report
SharedFtMessages ==
    {FileTransferRequest("f", 1),
     FileTransferChunk("f", Source(0, 1), 0),
     FileTransferEnd("f"),
     FileTransferError("f", "cancelled")}

\* the daemon with two connections accepted: the one FileTransferPlugin, its
\* one map of sessions and the one download directory serve both
InitSharedFT ==
    /\ paired_devices = {}
    /\ pairing_key = generate_pairing_key(KeyLo)
    /\ disk = <<>>
    /\ listening = TRUE
    /\ framing = [c \in Conns |-> "raw"]
    /\ pc = [c \in Conns |-> "read"]
    /\ wire = [c \in Conns |-> <<>>]
    /\ cur = [c \in Conns |-> NoMsg]
    /\ snap = [c \in Conns |-> <<>>]
    /\ resp = [c \in Conns |-> NoMsg]
    /\ result = [c \in Conns |-> "running"]
    /\ nSent = 0
    /\ unread = [c \in Conns |-> <<>>]
    /\ count = [c \in Conns |-> NoCount]
    /\ cmp = [c \in Conns |-> NoCmp]
    /\ keyGen = 0
    /\ accepted = {}
    /\ active_transfers = {}
    /\ files = [f \in FileNames |-> NoBytes]
    /\ file = [c \in Conns |-> NoFile]
    /\ xfer = NoXfer
    /\ trace = [c \in Conns |-> <<>>]
    /\ big = [c \in Conns |-> "no"]
    /\ clipboard = NoClipboard
    /\ start = "select"
    /\ discovery = "running"
    /\ locks = NoLocks

NextSharedFT ==
    \E c \in Conns :
        \/ \E m \in SharedFtMessages : Deliver(c, m)
        \/ Route(c)
        \/ \E ok \in BOOLEAN : FtCreate(c, ok)
        \/ FtInsert(c)
        \/ FtChunk(c, "ok")
        \/ FtEnd(c)
        \/ FtErrorRemove(c)
        \/ \E ok \in BOOLEAN : FtUnlink(c, ok)
        \/ WriteOk(c)
        \/ ReadEof(c)
        \/ ReadError(c)
        \/ ReadTimeout(c)
        \/ WriteError(c)
        \/ WriteTimeout(c)

SpecSharedFT == InitSharedFT /\ [][NextSharedFT]_vars

\* ----------------------------------------------------- peers that go silent

\* the handlers of clients that send a Ping or a Pong now and then, close,
\* fail, or stay silent
NextTimeouts ==
    \E c \in Conns :
        \/ \E f \in Framings : Accept(c, f)
        \/ \E m \in {Ping, Pong} : ClientSend(c, m)
        \/ Read(c)
        \/ ReadEof(c)
        \/ ReadError(c)
        \/ ReadTimeout(c)
        \/ Route(c)
        \/ WriteOk(c)
        \/ WriteError(c)
        \/ WriteTimeout(c)

\* what the code makes sure of: timeout(CONNECTION_TIMEOUT, stream.read(..))
\* returns, with bytes when there are some and with Err(Elapsed) when none
\* arrives; handle_message returns; timeout(CONNECTION_TIMEOUT,
\* stream.write_all(..)) returns, done or elapsed. That the peer closes, or
\* that the network fails, is up to the peer and the network.
FairTimeouts ==
    \A c \in Conns :
        /\ WF_vars(Read(c) \/ ReadTimeout(c))
        /\ WF_vars(Route(c))
        /\ WF_vars(WriteOk(c) \/ WriteTimeout(c))

SpecTimeouts == Init /\ [][NextTimeouts]_vars /\ FairTimeouts

\* ------------------------------------------------------------------ claims

Keyed(c) == cur[c].tag = "RequestPairingWithKey"
Legacy(c) == cur[c].tag = "RequestPairing"

\* C1: once a keyed request presenting the code K has been answered
\* PairingAccepted, every keyed request read later that presents the same K
\* is answered PairingRejected, whatever the generator drew for the new code.
C1_StaleCodeRejected ==
    \A c \in Conns :
        (pc[c] = "write" /\ Keyed(c) /\ cmp[c].stale)
            => resp[c].tag = "PairingRejected"

\* C2: one live code (one generation of pairing_key) is accepted for at most
\* one keyed request: no two connections are both answered PairingAccepted
\* for the same code compared in the same generation.
C2_OneAcceptPerCode ==
    \A a, b \in accepted :
        (a.gen = b.gen /\ a.key = b.key) => a.conn = b.conn

\* C3: a keyed request is answered PairingAccepted with its own id exactly
\* when its pairing_key equals the live code at the comparison, and
\* PairingRejected otherwise; handle_message never drops it without a reply.
C3_KeyedReply ==
    /\ [](\A c \in Conns :
            (Keyed(c) /\ pc[c] # "handle") =>
                IF cur[c].pairing_key = cmp[c].key
                THEN /\ pc[c] \in {"insert", "save", "fswrite", "newkey", "write"}
                     /\ pc[c] = "write" => resp[c] = PairingAccepted(cur[c].id)
                ELSE /\ pc[c] = "write"
                     /\ resp[c].tag = "PairingRejected")
    /\ [][\A c \in Conns :
            (Keyed(c) /\ cur'[c] # cur[c]) =>
                /\ pc[c] = "write"
                /\ resp[c].tag \in {"PairingAccepted", "PairingRejected"}]_vars

\* C3 witness: a keyed request is about to be answered PairingRejected after
\* another one has been answered PairingAccepted
C3_Witness ==
    \E c \in Conns :
        /\ pc[c] = "write" /\ Keyed(c)
        /\ resp[c].tag = "PairingRejected"
        /\ accepted # {}

\* C4: the handling of a keyed request whose key differs from the live code
\* changes neither the registry nor the live code nor paired_devices.json,
\* and its reply is PairingRejected with the request's id and the reason
\* "Invalid pairing key".
C4_RejectLeavesState ==
    [][\A c \in Conns :
         /\ (pc[c] = "handle" /\ Keyed(c) /\ cur[c].pairing_key # pairing_key
                /\ pc'[c] # pc[c]) =>
               /\ UNCHANGED <<paired_devices, pairing_key, disk>>
               /\ pc'[c] = "write"
               /\ resp'[c] = PairingRejected(cur[c].id, "Invalid pairing key")
         /\ (pc[c] = "write" /\ Keyed(c) /\ resp[c].tag = "PairingRejected"
                /\ pc'[c] # pc[c]) =>
               UNCHANGED <<paired_devices, pairing_key, disk>>]_vars

\* C4 witness: a rejection is about to be written while the registry and the
\* document hold a device
C4_Witness ==
    \E c \in Conns :
        /\ pc[c] = "write" /\ Keyed(c)
        /\ resp[c] = PairingRejected(cur[c].id, "Invalid pairing key")
        /\ paired_devices # {}
        /\ disk # <<>>

\* C5: a legacy RequestPairing is always answered PairingAccepted with the
\* supplied id, whatever the live code and the registry hold, and its insert
\* leaves the registry mapping that id to exactly the supplied DeviceInfo.
C5_LegacyAccepted ==
    /\ [](\A c \in Conns :
            (Legacy(c) /\ pc[c] = "write") =>
                resp[c] = PairingAccepted(cur[c].info.id))
    /\ [][\A c \in Conns :
            /\ (Legacy(c) /\ pc[c] = "handle" /\ pc'[c] # pc[c]) =>
                  /\ cur[c].info \in paired_devices'
                  /\ \A e \in paired_devices' :
                       e.id = cur[c].info.id => e = cur[c].info
            /\ (Legacy(c) /\ cur'[c] # cur[c]) => pc[c] = "write"]_vars

\* C5 witness: a legacy request is about to be answered PairingAccepted; it
\* has overwritten the entry a keyed pairing had stored under the same id
C5_Witness ==
    \E c \in Conns :
        /\ pc[c] = "write" /\ Legacy(c)
        /\ resp[c] = PairingAccepted(cur[c].info.id)
        /\ cur[c].info \in paired_devices
        /\ accepted # {}

\* C6: the registry holds at most one entry per DeviceId; a keyed pairing of
\* an id the registry already holds stores the metadata of this later request
\* and does not change the number of entries.
C6_OneEntryPerId ==
    /\ [](\A e1, e2 \in paired_devices : e1.id = e2.id => e1 = e2)
    /\ [][\A c \in Conns :
            (pc[c] = "insert" /\ pc'[c] # pc[c]) =>
                /\ KeyedDeviceInfo(cur[c]) \in paired_devices'
                /\ (\E e \in paired_devices : e.id = cur[c].id) =>
                      Cardinality(paired_devices') = Cardinality(paired_devices)]_vars

\* C6 witness: the device has been paired with two different codes, hence
\* under two different names, and the registry holds one entry
C6_Witness ==
    /\ Cardinality({a.key : a \in accepted}) = 2
    /\ Cardinality(paired_devices) = 1

\* C7: however the bytes of a connection are split into reads, the daemon
\* decodes the messages the client wrote and the connection does not end
\* with a decode failure.
C7_AnySplitDecodes ==
    \A c \in Conns : result[c] # "MessageDeserialization"

Handling == {"handle", "insert", "save", "fswrite", "newkey", "write"}

\* C8: within one connection a message is decoded only when the handling of
\* every earlier one, the write of its reply included, has finished: at most
\* one message is in handling, and replies follow the order of arrival.
C8_InArrivalOrder ==
    \A c \in Conns :
        /\ pc[c] \in Handling =>
              /\ count[c].decoded = count[c].finished + 1
              /\ cur[c] # NoMsg
        /\ pc[c] \in {"new", "read"} =>
              /\ count[c].decoded = count[c].finished
              /\ cur[c] = NoMsg /\ resp[c] = NoMsg
        /\ count[c].decoded - count[c].finished \in {0, 1}
        /\ count[c].answered <= count[c].finished

\* C8 witness: the second message of a connection is in handling after the
\* reply to the first one was written
C8_Witness ==
    \E c \in Conns :
        /\ pc[c] \in Handling
        /\ count[c].decoded = 2
        /\ count[c].answered = 1

\* the responses the daemon gives to a message
Replies(m) ==
    CASE m.tag = "Ping" -> {Pong}
      [] m.tag = "RequestPairing" -> {PairingAccepted(m.info.id)}
      [] m.tag = "RequestPairingWithKey" ->
            {PairingAccepted(m.id), PairingRejected(m.id, "Invalid pairing key")}
      [] OTHER -> {}

\* C9: the daemon writes at most one response per message it decoded, and
\* what it writes is a response to the message just read; a message no
\* handler answers (Pong) gets no reply and leaves the connection open.
C9_AtMostOneReply ==
    /\ [](\A c \in Conns :
            /\ count[c].answered <= count[c].decoded
            /\ pc[c] = "write" => resp[c] \in Replies(cur[c]))
    /\ [][\A c \in Conns :
            /\ count'[c].answered # count[c].answered =>
                  /\ count'[c].answered = count[c].answered + 1
                  /\ count'[c].finished = count[c].finished + 1
                  /\ pc[c] = "write"
            /\ (pc[c] = "handle" /\ cur[c] = Pong /\ pc'[c] # pc[c]) =>
                  /\ pc'[c] = "read"
                  /\ count'[c].answered = count[c].answered
                  /\ result'[c] = "running"]_vars

\* C9 witness: a Ping is about to be answered on a connection whose previous
\* message got no reply
C9_Witness ==
    \E c \in Conns :
        /\ pc[c] = "write" /\ cur[c] = Ping
        /\ count[c].finished = 1
        /\ count[c].answered = 0

Failures == {"NetworkError", "Timeout", "MessageDeserialization", "MessageTooLarge"}

\* C10: the failure of one connection's handler changes nothing of the other
\* connections, of the shared state or of the accept loop; after it the
\* other connections are still read and answered and new ones accepted.
C10_FailureIsLocal ==
    /\ [](\A c \in Conns :
            result[c] \in Failures =>
                \A d \in Conns \ {c} :
                    /\ pc[d] = "new" => ENABLED (\E f \in Framings : Accept(d, f))
                    /\ (pc[d] = "read" /\ wire[d] # <<>>) => ENABLED Read(d)
                    /\ pc[d] = "write" => ENABLED WriteOk(d))
    /\ [][\A c \in Conns :
            (result[c] = "running" /\ result'[c] \in Failures) =>
                /\ UNCHANGED <<paired_devices, pairing_key, disk, listening>>
                /\ \A d \in Conns \ {c} :
                     /\ pc'[d] = pc[d] /\ result'[d] = result[d]
                     /\ wire'[d] = wire[d] /\ unread'[d] = unread[d]
                     /\ cur'[d] = cur[d] /\ resp'[d] = resp[d]
                     /\ snap'[d] = snap[d] /\ count'[d] = count[d]]_vars

\* C10 witness: one connection has ended with a decode failure and another
\* one has a reply to be written
C10_Witness ==
    \E c, d \in Conns :
        /\ c # d
        /\ result[c] = "MessageDeserialization"
        /\ pc[d] = "write"

\* C11: a message whose encoded size exceeds the maximum message size ends its
\* connection with the MessageTooLarge failure, and none of its bytes is given
\* to the decoder before that.
C11_OversizeRefused ==
    \A c \in Conns :
        big[c] # "no" => (big[c] = "refused" /\ result[c] = "MessageTooLarge")

\* C12: the connection that carried a message longer than the maximum message
\* size is ended by the read that returns bytes of it, and no such message is
\* ever the one handed to handle_message.
C12_OversizeNeverDispatched ==
    \A c \in Conns :
        /\ ~Oversize(cur[c])
        /\ big[c] # "no" => (pc[c] = "done" /\ result[c] \in Failures)

\* C12 witness: a connection whose first message was handled has ended at the
\* read of the bytes of an oversize message
C12_Witness ==
    \E c \in Conns :
        /\ big[c] # "no"
        /\ pc[c] = "done"
        /\ count[c].finished = 1

\* C13: the read whose bytes do not decode to a Message ends its connection
\* with the decode failure; that step writes no reply and leaves the
\* registry, the pairing code, the persisted document, the file-transfer
\* sessions and the files as they were.
C13_DecodeFailureChangesNothing ==
    [][\A c \in Conns :
         (result[c] = "running" /\ result'[c] = "MessageDeserialization") =>
             /\ pc[c] = "read" /\ pc'[c] = "done"
             /\ resp'[c] = NoMsg
             /\ count'[c].answered = count[c].answered
             /\ UNCHANGED <<paired_devices, pairing_key, disk, active_transfers,
                            files>>]_vars

\* C13 witness: a decode failure on the only connection there has been, which
\* had opened a file-transfer session before, the registry holding a device
C13_Witness ==
    \E c \in Conns :
        /\ result[c] = "MessageDeserialization"
        /\ \A d \in Conns \ {c} : pc[d] = "new"
        /\ active_transfers # {}
        /\ paired_devices # {}

\* C14: a handler at its read with no byte in flight may read zero bytes and
\* then ends with the result Ok; a handler ends with Ok by such a step only,
\* and the step writes nothing and changes no shared state.
C14_EofIsSuccess ==
    /\ [](\A c \in Conns :
            (pc[c] = "read" /\ wire[c] = <<>>) =>
                ENABLED (ReadEof(c) /\ result'[c] = "Ok"))
    /\ [][\A c \in Conns :
            (result[c] = "running" /\ result'[c] = "Ok") =>
                /\ pc[c] = "read" /\ wire[c] = <<>> /\ pc'[c] = "done"
                /\ count'[c] = count[c]
                /\ UNCHANGED <<paired_devices, pairing_key, disk, active_transfers,
                               files, listening>>]_vars

\* C14 witness: a connection that was answered and then closed by its peer has
\* ended with Ok, the sessions and the registry not being empty
C14_Witness ==
    \E c \in Conns :
        /\ result[c] = "Ok"
        /\ count[c].answered = 1
        /\ active_transfers # {}
        /\ paired_devices # {}

\* the plugin loop has run for the last message of connection c and is over
Dispatched(c) == pc[c] \in {"read", "write"} /\ trace[c] # <<>>

\* the handler the loop selected: the one whose response it returned
Pick(tr) == IF tr[Len(tr)].outcome = "Some" THEN tr[Len(tr)].plugin ELSE NoPlugin

C16_HandlerFailureSkipped ==
    /\ [](\A c \in Conns :
            (Dispatched(c) /\ \E i \in 1 .. Len(trace[c]) : trace[c][i].outcome = "Err")
            =>
                LET tr == trace[c]
                    m == tr[1].msg
                    failed == {tr[i].plugin : i \in {j \in 1 .. Len(tr) :
                                                       tr[j].outcome = "Err"}}
                    able == {i \in 1 .. Len(plugins) :
                               /\ plugins[i] \notin failed
                               /\ PluginHandle(plugins[i], m) # NoMsg}
                IN /\ result[c] = "running"
                   /\ \A i \in 1 .. Len(tr) : tr[i].plugin = plugins[i]
                   /\ Len(tr) = Len(plugins) \/ Pick(tr) # NoPlugin
                   /\ m.tag \notin FtTags =>
                        resp[c] = IF able = {} THEN NoMsg
                                  ELSE PluginHandle(
                                         plugins[CHOOSE i \in able :
                                                   \A j \in able : i <= j], m))
    /\ [][\A c \in Conns :
            pc[c] \in {"handle", "plugin", "insert"} => result'[c] = "running"]_vars

\* C16 witness: the first handler failed and the reply is the response of the
\* second one
C16_Witness ==
    \E c \in Conns :
        /\ pc[c] = "write"
        /\ Len(trace[c]) = 2
        /\ trace[c][1].outcome = "Err"
        /\ trace[c][2].outcome = "Some"
        /\ resp[c].tag = "ClipboardSync"

\* C17: two dispatches of the same message over the same list of handlers, in
\* which no handler fails, select the same handler, whatever was dispatched
\* before.
C17_SameMessageSamePick ==
    \A c, d \in Conns :
        (/\ Dispatched(c) /\ Dispatched(d)
         /\ trace[c][1].msg = trace[d][1].msg
         /\ \A i \in 1 .. Len(trace[c]) : trace[c][i].outcome # "Err"
         /\ \A i \in 1 .. Len(trace[d]) : trace[d][i].outcome # "Err")
        => Pick(trace[c]) = Pick(trace[d])

\* the chunks g of a transfer, as the ranges of bytes they carry
Range(g) == g.offset .. g.offset + Len(g.chunk) - 1

NonOverlapping(got) ==
    \A i, j \in 1 .. Len(got) : i # j => Range(got[i]) \cap Range(got[j]) = {}

Covers(got, size) == UNION {Range(got[i]) : i \in 1 .. Len(got)} = 0 .. size - 1

\* the chunks one after the other, by increasing offset
RECURSIVE SortedConcat(_)
SortedConcat(set) ==
    IF set = {} THEN <<>>
    ELSE LET g == CHOOSE x \in set : \A y \in set : x.offset <= y.offset
         IN g.chunk \o SortedConcat(set \ {g})

\* C18: once FileTransferRequest(name, size), then chunks that do not overlap
\* and cover [0, size), in any order, then FileTransferEnd(name) have been
\* handled without an I/O failure, the file holds the chunks concatenated by
\* increasing offset, and there is no session for name.
C18_TransferRoundTrip ==
    (/\ xfer.state = "ended"
     /\ xfer.size >= 1
     /\ Len(xfer.got) >= 1
     /\ NonOverlapping(xfer.got)
     /\ Covers(xfer.got, xfer.size))
    => /\ files[xfer.file_name].exists
       /\ files[xfer.file_name].bytes =
            SortedConcat({xfer.got[i] : i \in 1 .. Len(xfer.got)})
       /\ Sessions(xfer.file_name) = {}

\* C18 witness: a transfer of two chunks that arrived in the reverse order has
\* ended, over a file left by an earlier transfer
C18_Witness ==
    /\ xfer.state = "ended"
    /\ xfer.size = 2
    /\ Len(xfer.got) = 2
    /\ xfer.got[1].offset > xfer.got[2].offset
    /\ NonOverlapping(xfer.got)
    /\ Covers(xfer.got, xfer.size)
    /\ pc["c1"] = "read"

\* C19: when FileTransferError for the file name F has been handled, there is
\* no session for F and no file named F in the download directory.
C19_ErrorCleansUp ==
    [][\A c \in Conns :
         (pc[c] = "unlink" /\ pc'[c] = "read") =>
             /\ SessionRemove(active_transfers', cur[c].file_name) = active_transfers'
             /\ ~files'[cur[c].file_name].exists]_vars

\* C20: when the file of a FileTransferRequest cannot be created, the reply is
\* FileTransferError for that file name and the sessions are as they were.
C20_CreateFailureReply ==
    [][\A c \in Conns :
         (/\ pc[c] = "plugin" /\ cur[c].tag = "FileTransferRequest"
          /\ pc'[c] # "insert") =>
             /\ pc'[c] = "write"
             /\ resp'[c].tag = "FileTransferError"
             /\ resp'[c].file_name = cur[c].file_name
             /\ active_transfers' = active_transfers]_vars

\* C20 witness: a request that could not create its file is about to be
\* answered FileTransferError, the session of an earlier request being kept
C20_Witness ==
    \E c \in Conns :
        /\ pc[c] = "write"
        /\ cur[c].tag = "FileTransferRequest"
        /\ resp[c].tag = "FileTransferError"
        /\ Sessions(cur[c].file_name) # {}

\* C21: FileTransferPlugin returns a response in one case only, the
\* FileTransferRequest whose file cannot be created: a reply that is the
\* response of FileTransferPlugin is the reply to a FileTransferRequest.
C21_OnlyCreateFailureResponds ==
    \A c \in Conns :
        (pc[c] = "write" /\ Dispatched(c) /\ Pick(trace[c]) = "file-transfer")
        => cur[c].tag = "FileTransferRequest"

\* C22: the handling of a FileTransferChunk for a file name without a session
\* changes neither the sessions nor the files, and returns nothing: the
\* handler goes back to its read with no reply and no failure.
C22_ChunkWithoutSessionIgnored ==
    [][\A c \in Conns :
         (/\ pc[c] = "plugin"
          /\ cur[c].tag = "FileTransferChunk"
          /\ Sessions(cur[c].file_name) = {}) =>
             /\ active_transfers' = active_transfers
             /\ files' = files
             /\ pc'[c] = "read"
             /\ resp'[c] = NoMsg
             /\ result'[c] = "running"
             /\ count'[c].answered = count[c].answered]_vars

\* C22 witness: a chunk has been handled after the end of its transfer, and
\* there is no session for its name
C22_Witness ==
    \E c \in Conns :
        /\ pc[c] = "read"
        /\ trace[c] # <<>>
        /\ trace[c][1].msg.tag = "FileTransferChunk"
        /\ Len(trace[c]) = Len(plugins)
        /\ xfer.state = "ended"
        /\ Sessions(trace[c][1].msg.file_name) = {}
        /\ files[trace[c][1].msg.file_name].exists

\* C29: a session is opened by the handling of a FileTransferRequest only and
\* closed by that of a FileTransferEnd or a FileTransferError only; once a
\* transfer has ended, the handling of a later chunk, end or error for its
\* name neither modifies nor deletes its file.
C29_TransferLifeCycle ==
    [][\A name \in FileNames :
         /\ (Sessions(name) = {} /\ SessionRemove(active_transfers', name)
                                       # active_transfers') =>
                \E c \in Conns : /\ cur[c].tag = "FileTransferRequest"
                                  /\ cur[c].file_name = name
         /\ (Sessions(name) # {} /\ SessionRemove(active_transfers', name)
                                       = active_transfers') =>
                \E c \in Conns : /\ cur[c].tag \in {"FileTransferEnd",
                                                     "FileTransferError"}
                                  /\ cur[c].file_name = name
         /\ (/\ xfer.state = "ended" /\ xfer.file_name = name
             /\ \A c \in Conns : cur[c].tag # "FileTransferRequest") =>
                files'[name] = files[name]]_vars

\* C30: while the chunks of a transfer are written without failure, in any
\* order and overlapping or not, each byte of the file is the one of the last
\* chunk handled that covers its position, the file ends where the furthest
\* chunk ends, and the positions no chunk covers hold nothing (they read 0).
C30_LastWriteWins ==
    (xfer.state \in {"open", "ended"}) =>
        LET got == xfer.got
            bytes == files[xfer.file_name].bytes
            covering(p) == {i \in 1 .. Len(got) : p - 1 \in Range(got[i])}
            last(p) == CHOOSE i \in covering(p) : \A j \in covering(p) : j <= i
        IN /\ files[xfer.file_name].exists
           /\ \A i \in 1 .. Len(got) : got[i].offset + Len(got[i].chunk) <= Len(bytes)
           /\ \A p \in 1 .. Len(bytes) :
                IF covering(p) = {} THEN bytes[p] = 0
                ELSE bytes[p] = got[last(p)].chunk[p - got[last(p)].offset]
           /\ Len(bytes) > 0 => covering(Len(bytes)) # {}

\* C30 witness: a chunk has been written over a byte of an earlier chunk that
\* held another value, and a position before them is covered by no chunk
C30_Witness ==
    /\ xfer.state = "open"
    /\ \E i, j \in 1 .. Len(xfer.got) :
         /\ i < j
         /\ xfer.got[i].offset = xfer.got[j].offset
         /\ xfer.got[i].chunk[1] # xfer.got[j].chunk[1]
    /\ \E p \in 1 .. Len(files[xfer.file_name].bytes) :
         \A i \in 1 .. Len(xfer.got) : p - 1 \notin Range(xfer.got[i])

\* the stages of an accepted keyed pairing, the document rewritten / the
\* write of the document failed and only logged
StagesSaved == <<"insert", "save", "newkey">>
StagesSaveFailed == <<"insert", "save failed", "newkey">>

\* a handler is about to write PairingAccepted for a keyed request
KeyedAccepted(c) ==
    pc[c] = "write" /\ Keyed(c) /\ resp[c].tag = "PairingAccepted"

C26_PingAnsweredPong ==
    /\ [](\A c \in Conns :
            /\ (pc[c] = "write" /\ cur[c] = Ping) => resp[c] = Pong
            /\ (cur[c] \in {Ping, Pong}) => pc[c] \in {"handle", "write"})
    /\ [][\A c \in Conns :
            /\ (cur[c] = Ping /\ pc[c] = "handle" /\ pc'[c] # "handle") =>
                  /\ pc'[c] = "write" /\ resp'[c] = Pong /\ cur'[c] = Ping
                  /\ count'[c] = count[c]
                  /\ \A o \in Conns \ {c} : resp'[o] = resp[o] /\ count'[o] = count[o]
            /\ (cur[c] = Ping /\ pc[c] = "write" /\ pc'[c] = "read") =>
                  count'[c].answered = count[c].answered + 1
            /\ (cur[c] = Pong /\ pc[c] = "handle" /\ pc'[c] # "handle") =>
                  /\ pc'[c] = "read" /\ resp'[c] = NoMsg /\ result'[c] = "running"
                  /\ count'[c].answered = count[c].answered
                  /\ \A o \in Conns : resp'[o] = resp[o]]_vars

\* a Pong is about to be written to a connection whose sender has paired
\* before on that connection
C26_Witness ==
    \E c \in Conns :
        /\ pc[c] = "write" /\ cur[c] = Ping /\ resp[c] = Pong
        /\ count[c].answered = 1
        /\ \E e \in paired_devices : e.id = "d1"

\* what the plugins answer to a RequestClipboard handled now
RequestClipboardNow ==
    DispatchFrom(1, Len(plugins), RequestClipboard, NoPlugin, <<>>).response

Persisted == {disk[i].id : i \in 1 .. Len(disk)}

\* C23: for every interleaving of the handlers, once all accepted pairings
\* have finished (no handler is between the decoding of a request and the
\* end of the write of its reply), the persisted document contains every
\* device whose pairing was accepted.
C23_AcceptedArePersisted ==
    (\A c \in Conns : pc[c] \in {"read", "done"}) =>
        \A e \in paired_devices : e.id \in Persisted

\* C24: when discovery fails (at its creation, its registration, the start of
\* browsing, or because the stream of events ends) only discovery stops:
\* start does not return, it goes on to start the listener, and the listener
\* started keeps accepting.
C24_DiscoveryFailureIsLocal ==
    discovery \in {"failed", "finished"} =>
        /\ start \in {"bind", "select"}
        /\ start = "select" => listening

EntriesOf(map, id) == {e \in map : e.id = id}
\* the entries the registry has under other ids
OthersOf(map, id) == {e \in map : e.id # id}

\* C31: after a peer-resolved event for peer P the registry has, under the
\* id made of P's full name, exactly one entry, with P's full name as name and
\* no capability, whatever entry the id had before (one created by a pairing
\* included); the entries of other ids are as they were.
C31_ResolvedReplacesEntry ==
    discovery = "running" =>
        \A p \in MdnsPeers :
            ENABLED (/\ ServiceResolved(p)
                     /\ \E e \in paired_devices' :
                          /\ EntriesOf(paired_devices', p.fullname) = {e}
                          /\ e.name = p.fullname
                          /\ e.capabilities = <<>>
                          /\ e.device_type =
                               (IF p.device_type = "mobile" THEN "Mobile" ELSE "Desktop")
                     /\ OthersOf(paired_devices', p.fullname) =
                          OthersOf(paired_devices, p.fullname))

\* the entry of p1 that a legacy pairing created and persisted has been
\* replaced in the registry by the one discovery builds
C31_Witness ==
    /\ \E i \in 1 .. Len(disk) :
          disk[i].id = "p1" /\ disk[i].capabilities = <<"ClipboardSync">>
    /\ EntriesOf(paired_devices, "p1") = {DeviceInfo("p1", "p1", "Mobile", <<>>)}
    /\ pc["c1"] = "read"

\* C32: a peer-removed event deletes the registry entry of the derived id and
\* leaves the persisted document, the live code and every other entry as they
\* were; a peer-resolved event does not write the document either.
C32_RemovedTouchesRegistryOnly ==
    discovery = "running" =>
        \A p \in MdnsPeers :
            /\ ENABLED (/\ ServiceRemoved(p)
                        /\ EntriesOf(paired_devices', p.fullname) = {}
                        /\ OthersOf(paired_devices', p.fullname) =
                             OthersOf(paired_devices, p.fullname)
                        /\ UNCHANGED <<disk, pairing_key, keyGen>>)
            /\ ENABLED (ServiceResolved(p) /\ UNCHANGED <<disk, pairing_key, keyGen>>)

\* p1 was paired and persisted and its advertisement has gone since: the
\* document still has it and the registry has not
C32_Witness ==
    /\ \E i \in 1 .. Len(disk) : disk[i].id = "p1"
    /\ EntriesOf(paired_devices, "p1") = {}
    /\ \E e \in paired_devices : e.id = "p2"
    /\ pc["c1"] = "read"

\* C36: the live code is replaced only by the step that ends an accepted keyed
\* pairing: no legacy pairing, rejected keyed pairing, discovery event or
\* message routed to the plugins changes it.
C36_CodeChangesOnAcceptOnly ==
    [][(pairing_key' # pairing_key \/ keyGen' # keyGen) =>
          \E c \in Conns :
              /\ pc[c] = "newkey" /\ Keyed(c)
              /\ cur[c].pairing_key = cmp[c].key
              /\ pc'[c] = "write" /\ resp'[c] = PairingAccepted(cur[c].id)
              /\ keyGen' = keyGen + 1]_vars

\* the code has been replaced once, by the keyed pairing of d1, after a
\* legacy pairing and discovery events that left it as it was
C36_Witness ==
    /\ keyGen = 1
    /\ \E e \in paired_devices : e.id = "d1"
    /\ \E e \in paired_devices : e.id = "p2"
    /\ \E i \in 1 .. Len(disk) : disk[i].id = "p1"
    /\ count["c1"].answered >= 2

\* the devices of the persisted document
Document == {disk[i] : i \in 1 .. Len(disk)}

\* C40: the snapshot a save takes is the whole registry of that moment, the
\* devices that were only discovered included; what a save writes is its
\* snapshot; and the registry of the next start is the devices of the
\* document, so a discovered device that was written is a device after it.
C40_DiscoveredArePersisted ==
    /\ [](ENABLED (Restart /\ paired_devices' = Document))
    /\ [][/\ \A c \in Conns :
               (pc[c] = "save" /\ pc'[c] = "fswrite") =>
                   /\ {snap'[c][i] : i \in 1 .. Len(snap'[c])} = paired_devices
                   /\ Len(snap'[c]) = Cardinality(paired_devices)
          /\ disk' # disk =>
               \E c \in Conns : pc[c] = "fswrite" /\ disk' = snap[c]]_vars

\* after a restart the registry holds peer p2, which no request has paired:
\* discovery had put it in the registry, the save of a pairing wrote it to
\* the document and the start loaded it
C40_Witness ==
    /\ pc["c1"] = "aborted"
    /\ DeviceInfo("p2", "p2", "Desktop", <<>>) \in Document
    /\ paired_devices = Document
    /\ Cardinality(paired_devices) = 2

\* C33: when two connections pair devices of different ids concurrently, no
\* insert is lost: once a handler has inserted its device the registry has it
\* from then on, whatever the other handler does, so that it has both
\* entries afterwards; and every entry of the registry is, whole, the
\* DeviceInfo of one request, one entry per id.
C33_NoInsertLost ==
    /\ [](/\ \A e \in paired_devices : e \in {m.info : m \in PairingRequests}
          /\ \A e, f \in paired_devices : e.id = f.id => e = f
          /\ \A c \in Conns :
                (Legacy(c) /\ pc[c] \in {"save", "fswrite", "write"}) =>
                    cur[c].info \in paired_devices)
    /\ [][paired_devices \subseteq paired_devices']_vars

\* both handlers are about to write PairingAccepted, for d1 and for d2, their
\* pairings having overlapped, and the registry has both devices
C33_Witness ==
    /\ \A c \in Conns : pc[c] = "write" /\ resp[c].tag = "PairingAccepted"
    /\ cur["c1"].info.id # cur["c2"].info.id
    /\ Cardinality(paired_devices) = 2
    /\ nSent = 2

\* the locks a task holds
Holds(t) == {l \in LockNames : locks[l] = t}

\* C35: no task holds the lock of the registry and the lock of the code at
\* the same time; a handler holds no lock when it is at a network read or
\* write (or at the write of the document); and nothing deadlocks on the two
\* locks: the holder of a lock can always take the step that releases it,
\* whatever the others wait for, and a free lock can be taken by who wants it.
C35_LocksNeverNested ==
    /\ \A t \in Tasks : Cardinality(Holds(t)) <= 1
    /\ \A c \in Conns :
          pc[c] \in {"new", "read", "fswrite", "write", "done"} => Holds(c) = {}
    /\ \A c \in Conns :
          /\ Holds(c) # {} =>
                ENABLED (/\ \/ CompareLocked(c) \/ InsertLocked(c) \/ SnapshotLocked(c)
                            \/ \E n \in RngValues : NewKeyLocked(c, n)
                         /\ locks' = [locks EXCEPT ![Wants(c)] = "free"])
          /\ (Wants(c) \in LockNames /\ locks[Wants(c)] = "free") => ENABLED Lock(c)
    /\ Holds("discovery") # {} =>
          \A p \in LockPeers : \A resolved \in BOOLEAN :
              ENABLED (/\ DiscoveryLocked(p, resolved)
                       /\ locks' = [locks EXCEPT !["paired_devices"] = "free"])

\* one handler holds the lock of the registry for its insert while the other
\* holds the lock of the code for its comparison and the discovery task has
\* put a peer in the registry
C35_Witness ==
    /\ locks["paired_devices"] = "c1" /\ pc["c1"] = "handle"
    /\ locks["pairing_key"] = "c2" /\ pc["c2"] = "handle"
    /\ \E e \in paired_devices : e.id = "p1"

\* C34: every handler that has been started terminates, its peer writing
\* only so many messages; at a read with nothing to read the read can end
\* with the Timeout failure, at a write the write can, and each ends the
\* handler, so that no handler waits forever on a silent peer.
C34_HandlersTerminate ==
    /\ \A c \in Conns : (pc[c] \in {"read", "handle", "write"}) ~> (pc[c] = "done")
    /\ [](\A c \in Conns :
            /\ (pc[c] = "read" /\ wire[c] = <<>>) =>
                  ENABLED (ReadTimeout(c) /\ pc'[c] = "done" /\ result'[c] = "Timeout")
            /\ pc[c] = "write" =>
                  ENABLED (WriteTimeout(c) /\ pc'[c] = "done" /\ result'[c] = "Timeout"))

\* a handler has ended with the Timeout failure after it had answered the one
\* message its peer sent
C34_Witness ==
    \E c \in Conns :
        /\ pc[c] = "done" /\ result[c] = "Timeout"
        /\ count[c].answered = 1 /\ count[c].finished = 1

\* C38: with two connections on the one plugin there is never more than one
\* session under a file name; a FileTransferRequest whose file is created
\* leaves the file empty whatever was written and whoever opened the session
\* there is, and its insert leaves the File of this request as the only
\* session under the name; a chunk on either connection is written through
\* the session there is then.
C38_OneSessionPerName ==
    /\ [](\A n \in FileNames : Cardinality(Sessions(n)) <= 1)
    /\ [][\A c \in Conns :
            /\ (pc[c] = "plugin" /\ cur[c].tag = "FileTransferRequest"
                  /\ pc'[c] = "insert") =>
                  files'[cur[c].file_name] = [exists |-> TRUE, bytes |-> <<>>]
            /\ (pc[c] = "insert" /\ pc'[c] # "insert") =>
                  /\ {s \in active_transfers' : s.file_name = cur[c].file_name}
                       = {file[c]}
                  /\ file[c].file_name = cur[c].file_name]_vars
    /\ [](\A c \in Conns :
            (/\ pc[c] = "plugin"
             /\ cur[c].tag = "FileTransferChunk"
             /\ \E s \in Sessions(cur[c].file_name) : s.live) =>
                ENABLED (/\ FtChunk(c, "ok")
                         /\ files'[cur[c].file_name].bytes =
                              WriteAt(files[cur[c].file_name].bytes,
                                      cur[c].offset, cur[c].chunk)))

\* the first message of the second connection is a request for the name under
\* which a session is open and a byte written: its File::create empties the
\* file
C38_Witness ==
    /\ pc["c2"] = "plugin"
    /\ cur["c2"].tag = "FileTransferRequest"
    /\ count["c2"].decoded = 1
    /\ Sessions(cur["c2"].file_name) # {}
    /\ files[cur["c2"].file_name].bytes # <<>>
    /\ ENABLED (/\ FtCreate("c2", TRUE)
                /\ files'[cur["c2"].file_name].bytes = <<>>
                /\ pc'["c2"] = "insert")

\* C39: the sessions under a name become none only in the handling of a
\* FileTransferEnd or a FileTransferError for that name; the end of a handler,
\* by the disconnect of its peer, a timeout or a failure, leaves the sessions
\* and the files as they are; and a chunk on a connection is written through
\* the session of its name while the handler of the other connection is over.
C39_SessionsOutliveConnections ==
    /\ [][\A n \in FileNames :
            (Sessions(n) # {} /\ Sessions(n)' = {}) =>
                \E c \in Conns :
                    /\ pc[c] = "plugin"
                    /\ cur[c].tag \in {"FileTransferEnd", "FileTransferError"}
                    /\ cur[c].file_name = n]_vars
    /\ [][\A c \in Conns :
            (pc[c] # "done" /\ pc'[c] = "done") =>
                /\ result'[c] \in {"Ok", "NetworkError", "Timeout"}
                /\ active_transfers' = active_transfers
                /\ files' = files]_vars
    /\ [](\A c \in Conns :
            (/\ pc[c] = "plugin"
             /\ cur[c].tag = "FileTransferChunk"
             /\ \E d \in Conns \ {c} : pc[d] = "done"
             /\ \E s \in Sessions(cur[c].file_name) : s.live) =>
                ENABLED (/\ FtChunk(c, "ok")
                         /\ active_transfers' = active_transfers
                         /\ files'[cur[c].file_name].bytes =
                              WriteAt(files[cur[c].file_name].bytes,
                                      cur[c].offset, cur[c].chunk)))

\* the first connection sent one message and its handler has timed out; the
\* second has sent nothing but the chunk in handling: the session of the
\* first is there, and the chunk is written to its file
C39_Witness ==
    /\ pc["c1"] = "done" /\ result["c1"] = "Timeout"
    /\ count["c1"].decoded = 1
    /\ pc["c2"] = "plugin"
    /\ cur["c2"].tag = "FileTransferChunk"
    /\ count["c2"].decoded = 1
    /\ Sessions(cur["c2"].file_name) # {}
    /\ files[cur["c2"].file_name] = [exists |-> TRUE, bytes |-> <<>>]
    /\ ENABLED (/\ FtChunk("c2", "ok")
                /\ files'[cur["c2"].file_name].bytes = cur["c2"].chunk)

\* what the plugins answer to a message, given the clipboard, and the
\* clipboard they leave
C37_Reply(m, cb) ==
    IF m.tag = "Ping" THEN Pong
    ELSE IF m.tag = "RequestClipboard"
    THEN ClipboardSync(IF cb.mode = "ok" THEN cb.text ELSE Str("", 0))
    ELSE NoMsg

C37_Clipboard(m, cb) ==
    IF m.tag = "ClipboardSync" /\ cb.mode = "ok" THEN [cb EXCEPT !.text = m.content]
    ELSE cb

\* C37: whatever the registry and the live code are, the handling of a
\* message that is no pairing request returns the reply, and leaves the
\* clipboard, that the message and the clipboard alone determine, goes on to
\* the write exactly when there is a reply, and leaves the registry, the
\* code, the document, the sessions and the files as they are: two states
\* that differ in the registry and the code only give the same reply and the
\* same effects.
C37_ServedAlike ==
    [][\A c \in Conns :
         (/\ pc[c] = "handle"
          /\ cur[c].tag \notin {"RequestPairing", "RequestPairingWithKey"}
          /\ pc'[c] # "handle") =>
             /\ resp'[c] = C37_Reply(cur[c], clipboard)
             /\ clipboard' = C37_Clipboard(cur[c], clipboard)
             /\ pc'[c] = IF C37_Reply(cur[c], clipboard) = NoMsg THEN "read" ELSE "write"
             /\ result'[c] = result[c]
             /\ UNCHANGED <<shared_vars, ft_vars, listening, locks>>]_vars

\* a peer that has not paired is answered its Ping while the registry is
\* empty
C37_Witness ==
    /\ pc["c1"] = "write"
    /\ cur["c1"] = Ping
    /\ resp["c1"] = Pong
    /\ count["c1"].decoded = 1
    /\ paired_devices = {}
    /\ accepted = {}

====
